---------------------------- MODULE Spec2Model ----------------------------
(***************************************************************************)
(* A state-machine model of vegas-rs: the Machine that runs relax and      *)
(* measure phases over an instrument list, the programs (Relax, CoolDown,  *)
(* HysteresisLoop) that drive it, the integrators, the energy components,  *)
(* the thermostat, the instruments (StatSensor, RawStatSensor,             *)
(* StateSensor) and the columnar writers behind them.  Besides the         *)
(* programs, callers of the library's own functions (the thermostat's      *)
(* constructors, the integrators' step, the components' energies) take     *)
(* their turns.                                                            *)
(***************************************************************************)
EXTENDS Integers, Sequences, FiniteSets, TLC

(***************************************************************************)
(* f64 arithmetic.  Every f64 the programs handle here is a multiple of    *)
(* 2^-56 of magnitude below 4, so a value is held exactly as a sign and a  *)
(* magnitude counted in units of 2^-56, the magnitude split in two limbs   *)
(* (hi * 2^28 + lo).  Addition and subtraction are exact on the limbs and  *)
(* the result is rounded to 53 significant bits, ties to even, as IEEE-754 *)
(* does.  NaN is the one value that is not a number: every comparison with *)
(* it is false and every sum with it is NaN.                               *)
(***************************************************************************)
LimbBase == 2^28

\* f64::NAN
NaN == [neg |-> FALSE, hi |-> -1, lo |-> 0]
IsNaN(a) == a.hi < 0

F64(neg, hi, lo) == [neg |-> neg /\ (hi > 0 \/ lo > 0), hi |-> hi, lo |-> lo]

\* The number of low bits a magnitude with high limb hi has beyond 53.
DropBits(hi) ==
    IF hi < 2^25 THEN 0
    ELSE IF hi < 2^26 THEN 1
    ELSE IF hi < 2^27 THEN 2
    ELSE IF hi < 2^28 THEN 3
    ELSE IF hi < 2^29 THEN 4
    ELSE 5

\* Round a magnitude to 53 significant bits, ties to even.
RoundMag(hi, lo) ==
    LET r    == DropBits(hi)
        unit == 2^r
        q    == lo \div unit
        rem  == lo % unit
        half == unit \div 2
        up   == r > 0 /\ (rem > half \/ (rem = half /\ q % 2 = 1))
        lo2  == (IF up THEN q + 1 ELSE q) * unit
    IN  IF lo2 >= LimbBase THEN [hi |-> hi + 1, lo |-> lo2 - LimbBase]
        ELSE [hi |-> hi, lo |-> lo2]

MagLt(a, b) == a.hi < b.hi \/ (a.hi = b.hi /\ a.lo < b.lo)

MagAdd(a, b) ==
    LET lo == a.lo + b.lo
    IN  RoundMag(a.hi + b.hi + lo \div LimbBase, lo % LimbBase)

\* a - b for magnitudes with b <= a.
MagSub(a, b) ==
    LET lo == a.lo - b.lo
    IN  IF lo >= 0 THEN RoundMag(a.hi - b.hi, lo)
        ELSE RoundMag(a.hi - b.hi - 1, lo + LimbBase)

F64Neg(a) == IF IsNaN(a) THEN NaN ELSE F64(~a.neg, a.hi, a.lo)

F64Add(a, b) ==
    IF IsNaN(a) \/ IsNaN(b) THEN NaN
    ELSE IF a.neg = b.neg
    THEN LET m == MagAdd(a, b) IN F64(a.neg, m.hi, m.lo)
    ELSE IF MagLt(a, b)
         THEN LET m == MagSub(b, a) IN F64(b.neg, m.hi, m.lo)
         ELSE LET m == MagSub(a, b) IN F64(a.neg, m.hi, m.lo)

F64Sub(a, b) == F64Add(a, F64Neg(b))

F64Lt(a, b) ==
    IF IsNaN(a) \/ IsNaN(b) THEN FALSE
    ELSE IF a.neg /\ ~b.neg THEN TRUE
    ELSE IF ~a.neg /\ b.neg THEN FALSE
    ELSE IF a.neg THEN MagLt(b, a)
    ELSE MagLt(a, b)

F64Le(a, b) == ~IsNaN(a) /\ ~IsNaN(b) /\ ~F64Lt(b, a)

\* The f64 values of the decimal literals the programs are configured with.
Zero      == F64(FALSE, 0, 0)
EPSILON   == F64(FALSE, 0, 16)                  \* f64::EPSILON = 2^-52
Lit0p1    == F64(FALSE, 26843545, 161061274)    \* 0.1
Lit0p2    == F64(FALSE, 53687091, 53687092)     \* 0.2
Lit0p3    == F64(FALSE, 80530636, 214748364)    \* 0.3
Lit0p25   == F64(FALSE, 67108864, 0)            \* 0.25
Lit0p5    == F64(FALSE, 134217728, 0)           \* 0.5
Lit1p0    == F64(FALSE, 268435456, 0)           \* 1.0
Lit3p0    == F64(FALSE, 805306368, 0)           \* 3.0
Lit2p8    == F64(FALSE, 751619276, 214748352)   \* 2.8
Neg0p1    == F64Neg(Lit0p1)                     \* -0.1


(***************************************************************************)
(* Bounds of the model.                                                    *)
(***************************************************************************)
MaxSites == 2        \* largest number of spins of a state
MaxInstruments == 2  \* longest instrument list
MaxSteps == 2        \* the step count of a directly called phase that runs
MaxCalls == 2        \* most calls a direct caller makes
MaxWindows == 40     \* most measurement windows a CoolDown is followed for

(***************************************************************************)
(* Spins and states (Ising).                                               *)
(***************************************************************************)
IsingSpin == {"Up", "Down"}

\* IsingSpin::dot
Dot(a, b) == IF a = b THEN 1 ELSE -1

\* State<S>: the spins, indexed 1..N here (0..N-1 in the source).
States(n) == [1..n -> IsingSpin]

\* State::up_with_size, State::down_with_size
UpWithSize(n) == [i \in 1..n |-> "Up"]
DownWithSize(n) == [i \in 1..n |-> "Down"]

\* State::set_at
SetAt(state, i, spin) == [state EXCEPT ![i] = spin]

\* The spins of a state that equal spin, counted.
Count(state, spin) == Cardinality({i \in 1..Len(state) : state[i] = spin})

\* IsingMagnetization::new; underflow tells whether a subtraction of the
\* unsigned magnitude has gone below zero.
IsingMagnetizationNew ==
    [magnitude |-> 0, reference |-> "Up", underflow |-> FALSE]

\* Adding a spin without looking at a zero magnitude first.
MagnetizationAddSpinNoZeroCase(acc, rhs) ==
    IF acc.reference = rhs
    THEN [acc EXCEPT !.magnitude = acc.magnitude + 1]
    ELSE [acc EXCEPT !.magnitude = IF acc.magnitude >= 1
                                   THEN acc.magnitude - 1 ELSE 0,
                     !.underflow = acc.underflow \/ acc.magnitude < 1]

\* Add<IsingSpin> for IsingMagnetization
MagnetizationAddSpin(acc, rhs) ==
    IF acc.magnitude = 0
    THEN [acc EXCEPT !.magnitude = 1, !.reference = rhs]
    ELSE IF acc.reference = rhs
    THEN [acc EXCEPT !.magnitude = acc.magnitude + 1]
    ELSE [acc EXCEPT !.magnitude = IF acc.magnitude >= 1
                                   THEN acc.magnitude - 1 ELSE 0,
                     !.underflow = acc.underflow \/ acc.magnitude < 1]

\* Sum<IsingSpin> for IsingMagnetization: the fold over the spins in order
RECURSIVE MagnetizationFold(_, _, _)
MagnetizationFold(acc, state, k) ==
    IF k > Len(state) THEN acc
    ELSE MagnetizationFold(MagnetizationAddSpin(acc, state[k]), state, k + 1)

\* State::magnetization
Magnetization(state) == MagnetizationFold(IsingMagnetizationNew, state, 1)

\* State::magnetization().magnitude()
MagnetizationMagnitude(state) == Magnetization(state).magnitude

(***************************************************************************)
(* The Hamiltonian of the machine: exchange with unit coupling between     *)
(* neighbouring sites of an open chain.                                    *)
(***************************************************************************)
Neighbors(n, i) == {j \in 1..n : j = i - 1 \/ j = i + 1}

RECURSIVE SumOver(_, _)
SumOver(f, S) ==
    IF S = {} THEN 0
    ELSE LET e == CHOOSE e \in S : TRUE IN f[e] + SumOver(f, S \ {e})

\* Exchange::energy: -sum over the row of J of J_ij * (s_i . s_j)
Energy(state, i) ==
    LET n == Len(state)
    IN  -SumOver([j \in 1..n |-> Dot(state[i], state[j])], Neighbors(n, i))

\* Exchange::total_energy: the per-site energies summed, then halved
TotalEnergy(state) ==
    LET n == Len(state)
    IN  SumOver([i \in 1..n |-> Energy(state, i)], 1..n) \div 2

(***************************************************************************)
(* The energy components.  The energies handled here are sums and products *)
(* of small whole numbers, which f64 holds exactly, so they are kept as     *)
(* integers.                                                               *)
(***************************************************************************)
\* Field<S>: an orientation and a magnitude
Field(orientation, magnitude) ==
    [orientation |-> orientation, magnitude |-> magnitude]

\* Gauge::new
Gauge(value) == [term |-> "Gauge", value |-> value]

\* UniaxialAnisotropy::new
UniaxialAnisotropy(reference, strength) ==
    [term |-> "UniaxialAnisotropy", reference |-> reference,
     strength |-> strength]

\* ZeemanEnergy::new
ZeemanEnergy == [term |-> "ZeemanEnergy"]

\* Exchange::new: exchange[i][j] is the stored entry of the matrix, 0 where
\* it stores none.
ExchangeNew(exchange) == [term |-> "Exchange", exchange |-> exchange]

\* Compound::new
CompoundNew(a, b) == [term |-> "Compound", a |-> a, b |-> b]

\* A lattice edge, from lattice.vertices()
Vertex(source, target) == [source |-> source, target |-> target]

\* The open chain of n sites as a lattice's edge list.
Chain(n) == [k \in 1..(n - 1) |-> Vertex(k, k + 1)]

\* Exchange::from_lattice: the triplets (source, target, 1.0) and
\* (target, source, 1.0) of every vertex with source <= target; to_csr sums
\* the triplets that fall on the same entry.
FromLattice(nsites, vertices) ==
    LET kept == {k \in 1..Len(vertices) :
                    vertices[k].source <= vertices[k].target}
        Triplets(i, j) ==
            Cardinality({k \in kept : vertices[k] = Vertex(i, j)})
            + Cardinality({k \in kept : vertices[k] = Vertex(j, i)})
    IN  ExchangeNew([i \in 1..nsites |-> [j \in 1..nsites |-> Triplets(i, j)]])

\* Hamiltonian::energy of each component
RECURSIVE HamiltonianEnergy(_, _, _, _)
HamiltonianEnergy(h, field, state, index) ==
    CASE h.term = "Gauge" -> h.value
      [] h.term = "UniaxialAnisotropy" ->
           Dot(state[index], h.reference) * Dot(state[index], h.reference)
               * h.strength
      [] h.term = "ZeemanEnergy" ->
           Dot(state[index], field.orientation) * field.magnitude
      [] h.term = "Exchange" ->
           SumOver([j \in 1..Len(state) |->
                       -h.exchange[index][j] * Dot(state[index], state[j])],
                   {j \in 1..Len(state) : h.exchange[index][j] # 0})
      [] OTHER ->
           HamiltonianEnergy(h.a, field, state, index)
               + HamiltonianEnergy(h.b, field, state, index)

\* The provided method Hamiltonian::total_energy
ProvidedTotalEnergy(h, field, state) ==
    SumOver([i \in 1..Len(state) |-> HamiltonianEnergy(h, field, state, i)],
            1..Len(state))

\* Hamiltonian::total_energy: UniaxialAnisotropy, ZeemanEnergy and Exchange
\* have their own, Gauge and Compound the provided one.  The matrices of
\* from_lattice make the sum that Exchange halves even.
HamiltonianTotalEnergy(h, field, state) ==
    CASE h.term = "UniaxialAnisotropy" ->
           SumOver([i \in 1..Len(state) |->
                       Dot(state[i], h.reference) * Dot(state[i], h.reference)],
                   1..Len(state))
      [] h.term = "ZeemanEnergy" ->
           -field.magnitude
               * SumOver([i \in 1..Len(state) |->
                             Dot(state[i], field.orientation)], 1..Len(state))
      [] h.term = "Exchange" -> ProvidedTotalEnergy(h, field, state) \div 2
      [] OTHER -> ProvidedTotalEnergy(h, field, state)

\* hamiltonian!: one component is itself; more are folded from the left
\* into Compounds.
RECURSIVE Flatten(_, _)
Flatten(I, rest) ==
    IF rest = <<>> THEN I ELSE Flatten(CompoundNew(I, Head(rest)), Tail(rest))

HamiltonianMacro(components) == Flatten(Head(components), Tail(components))

(***************************************************************************)
(* The random number generator handed to the machine.  A draw advances the *)
(* generator and yields a value in 0..RngRange-1, read as the uniform      *)
(* number value/RngRange of [0,1).                                         *)
(***************************************************************************)
RngRange == 16

RngNext(r) == (5 * r + 3) % RngRange

RECURSIVE RngOutputs(_, _)
RngOutputs(r, n) ==
    IF n = 0 THEN <<>> ELSE <<RngNext(r)>> \o RngOutputs(RngNext(r), n - 1)

RECURSIVE RngAdvance(_, _)
RngAdvance(r, n) == IF n = 0 THEN r ELSE RngAdvance(RngNext(r), n - 1)

\* A generator that may have been reseeded behind the caller's back.
RngStreamUnseeded(r, n) == {RngOutputs(r, n), RngOutputs(RngNext(r), n)}

\* The streams of the next n draws a generator in state r can deliver: the
\* one stream its state determines.
RngStream(r, n) == {RngOutputs(r, n)}

(***************************************************************************)
(* MetropolisIntegrator::step                                              *)
(***************************************************************************)
\* Uniform::new(0, n).sample(rng)
SiteOf(draw, n) == (draw % n) + 1

\* IsingSpin::rand: Up when the uniform draw is below 0.5
SpinOf(draw) == IF 2 * draw < RngRange THEN "Up" ELSE "Down"

\* floor(1000 * ln(RngRange / u)) for u in 1..15; for u = 0 the largest
\* exponent at which exp() has not yet underflowed to 0 (745.13).
LnBound ==
    [u \in 0..(RngRange - 1) |->
        CASE u = 0 -> 745133 [] u = 1 -> 2772 [] u = 2 -> 2079 [] u = 3 -> 1673
          [] u = 4 -> 1386 [] u = 5 -> 1163 [] u = 6 -> 980 [] u = 7 -> 826
          [] u = 8 -> 693 [] u = 9 -> 575 [] u = 10 -> 470 [] u = 11 -> 374
          [] u = 12 -> 287 [] u = 13 -> 207 [] u = 14 -> 133 [] OTHER -> 64]

\* The temperature in sixteenths, rounded down.
Sixteenths(t) == t.hi \div (2^24)

\* rng.random::<f64>() < (-delta / temperature).exp(), for delta >= 0:
\* u/RngRange < exp(-delta/T)  <=>  delta/T < ln(RngRange/u).
Accepts(u, delta, temperature) ==
    IF delta = 0 THEN TRUE
    ELSE 16 * 1000 * delta < Sixteenths(temperature) * LnBound[u]

\* A trial that leaves the proposed spin in place when it is rejected.
TrialNoRestore(ds, pos, temperature, state) ==
    LET site_index == SiteOf(ds[pos + 1], Len(state))
        proposed   == SetAt(state, site_index, SpinOf(ds[pos + 2]))
        delta      == Energy(proposed, site_index) - Energy(state, site_index)
    IN  [state |-> proposed, pos |-> IF delta < 0 THEN pos + 2 ELSE pos + 3,
         draws |-> IF delta < 0 THEN <<"site", "proposal">>
                   ELSE <<"site", "proposal", "acceptance">>]

\* One trial move: site draw, proposal draw, then the acceptance draw unless
\* the move lowers the energy.  ds is the stream of draws, pos the number of
\* draws already consumed.
Trial(ds, pos, temperature, state) ==
    LET n          == Len(state)
        site_index == SiteOf(ds[pos + 1], n)
        old_energy == Energy(state, site_index)
        old_spin   == state[site_index]
        proposed   == SetAt(state, site_index, SpinOf(ds[pos + 2]))
        new_energy == Energy(proposed, site_index)
        delta      == new_energy - old_energy
    IN  IF delta < 0
        THEN [state |-> proposed, pos |-> pos + 2,
              draws |-> <<"site", "proposal">>]
        ELSE IF Accepts(ds[pos + 3], delta, temperature)
        THEN [state |-> proposed, pos |-> pos + 3,
              draws |-> <<"site", "proposal", "acceptance">>]
        ELSE [state |-> SetAt(proposed, site_index, old_spin), pos |-> pos + 3,
              draws |-> <<"site", "proposal", "acceptance">>]

RECURSIVE Trials(_, _, _, _, _)
Trials(ds, pos, temperature, state, left) ==
    IF left = 0
    THEN [state |-> state, pos |-> pos, draws |-> <<>>, trials |-> <<>>]
    ELSE LET t    == Trial(ds, pos, temperature, state)
             rest == Trials(ds, t.pos, temperature, t.state, left - 1)
         IN  [state |-> rest.state, pos |-> rest.pos,
              draws |-> t.draws \o rest.draws,
              trials |-> <<[pos |-> pos, before |-> state,
                            after |-> t.state]>> \o rest.trials]

\* A sweep of state.len() trials.
MetropolisStep(ds, temperature, state) ==
    Trials(ds, 0, temperature, state, Len(state))

(***************************************************************************)
(* MetropolisFlipIntegrator::step and WolffIntegrator::step                *)
(***************************************************************************)
\* Uniform::new(low, high): Ok for a non-empty range, an error otherwise.
UniformNew(low, high) == low < high

\* Flip for IsingSpin
FlipSpin(spin) == IF spin = "Up" THEN "Down" ELSE "Up"

\* One trial of MetropolisFlipIntegrator: site draw, the spin flipped, then
\* the acceptance draw unless the flip lowers the energy.
FlipTrial(ds, pos, temperature, state) ==
    LET site       == SiteOf(ds[pos + 1], Len(state))
        old_energy == Energy(state, site)
        old_spin   == state[site]
        flipped    == SetAt(state, site, FlipSpin(old_spin))
        delta      == Energy(flipped, site) - old_energy
    IN  IF delta < 0
        THEN [state |-> flipped, pos |-> pos + 1, draws |-> <<"site">>]
        ELSE IF Accepts(ds[pos + 2], delta, temperature)
        THEN [state |-> flipped, pos |-> pos + 2,
              draws |-> <<"site", "acceptance">>]
        ELSE [state |-> SetAt(flipped, site, old_spin), pos |-> pos + 2,
              draws |-> <<"site", "acceptance">>]

RECURSIVE FlipTrials(_, _, _, _, _)
FlipTrials(ds, pos, temperature, state, left) ==
    IF left = 0
    THEN [state |-> state, pos |-> pos, draws |-> <<>>, trials |-> <<>>]
    ELSE LET t    == FlipTrial(ds, pos, temperature, state)
             rest == FlipTrials(ds, t.pos, temperature, t.state, left - 1)
         IN  [state |-> rest.state, pos |-> rest.pos,
              draws |-> t.draws \o rest.draws,
              trials |-> <<[pos |-> pos, before |-> state,
                            after |-> t.state]>> \o rest.trials]

MetropolisFlipStep(ds, temperature, state) ==
    FlipTrials(ds, 0, temperature, state, Len(state))

\* MetropolisIntegrator::new, MetropolisFlipIntegrator::new
MetropolisIntegratorNew == [kind |-> "Metropolis"]
MetropolisFlipIntegratorNew == [kind |-> "MetropolisFlip"]

\* WolffIntegrator::from_lattice: every vertex pushes its target on its
\* source's list and its source on its target's.
RECURSIVE PushNeighbors(_, _, _)
PushNeighbors(neighbor_list, vertices, k) ==
    IF k > Len(vertices) THEN neighbor_list
    ELSE LET v == vertices[k]
             a == [neighbor_list EXCEPT ![v.source] = Append(@, v.target)]
         IN  PushNeighbors([a EXCEPT ![v.target] = Append(@, v.source)],
                           vertices, k + 1)

WolffFromLattice(nsites, vertices) ==
    [kind |-> "Wolff",
     neighbor_list |-> PushNeighbors([i \in 1..nsites |-> <<>>], vertices, 1)]

\* rng.random::<f64>() < 1.0 - (-2.0 / temperature).exp():
\* u/RngRange < 1 - exp(-2/T)  <=>  ln(RngRange / (RngRange - u)) < 2/T.
WolffAdds(u, temperature) ==
    /\ ~IsNaN(temperature)
    /\ u = 0 \/ LnBound[RngRange - u] * Sixteenths(temperature) < 2 * 16 * 1000

\* The loop over the neighbours of a site that has joined the cluster.
RECURSIVE WolffNeighbors(_, _, _, _, _, _, _, _, _)
WolffNeighbors(ds, pos, temperature, state, site, list, k, visited, queue) ==
    IF k > Len(list) THEN [queue |-> queue, pos |-> pos]
    ELSE IF list[k] \notin visited /\ state[list[k]] = state[site]
    THEN WolffNeighbors(ds, pos + 1, temperature, state, site, list, k + 1,
                        visited,
                        IF WolffAdds(ds[pos + 1], temperature)
                        THEN Append(queue, list[k]) ELSE queue)
    ELSE WolffNeighbors(ds, pos, temperature, state, site, list, k + 1,
                        visited, queue)

\* The loop taking every site it pops, visited or not.
RECURSIVE WolffClusterNoRecheck(_, _, _, _, _, _, _, _)
WolffClusterNoRecheck(ds, pos, temperature, state, neighbor_list, queue, visited, cluster) ==
    IF queue = <<>> THEN [cluster |-> cluster, pos |-> pos]
    ELSE LET site == Head(queue)
             seen == visited \cup {site}
             r    == WolffNeighbors(ds, pos, temperature, state, site,
                                    neighbor_list[site], 1, seen, Tail(queue))
         IN  WolffClusterNoRecheck(ds, r.pos, temperature, state,
                                   neighbor_list, r.queue, seen,
                                   Append(cluster, site))

\* while let Some(site) = queue.pop_front()
RECURSIVE WolffCluster(_, _, _, _, _, _, _, _)
WolffCluster(ds, pos, temperature, state, neighbor_list, queue, visited, cluster) ==
    IF queue = <<>> THEN [cluster |-> cluster, pos |-> pos]
    ELSE IF Head(queue) \in visited
    THEN WolffCluster(ds, pos, temperature, state, neighbor_list, Tail(queue),
                      visited, cluster)
    ELSE LET site == Head(queue)
             seen == visited \cup {site}
             r    == WolffNeighbors(ds, pos, temperature, state, site,
                                    neighbor_list[site], 1, seen, Tail(queue))
         IN  WolffCluster(ds, r.pos, temperature, state, neighbor_list,
                          r.queue, seen, Append(cluster, site))

\* for &site in &cluster: the spin of each entry flipped in turn
RECURSIVE FlipCluster(_, _, _)
FlipCluster(state, cluster, k) ==
    IF k > Len(cluster) THEN state
    ELSE FlipCluster(SetAt(state, cluster[k], FlipSpin(state[cluster[k]])),
                     cluster, k + 1)

\* WolffIntegrator::step after its Uniform has been built.
WolffStep(ds, temperature, state, neighbor_list) ==
    LET source == SiteOf(ds[1], Len(state))
        c      == WolffCluster(ds, 1, temperature, state, neighbor_list,
                               <<source>>, {}, <<>>)
    IN  [state |-> FlipCluster(state, c.cluster, 1),
         pos |-> c.pos, cluster |-> c.cluster, trials |-> <<>>]

\* Integrator::step: the Uniform over the sites is built first, with
\* expect; then the integrator's own loop runs.
IntegratorStep(integrator, ds, temperature, state) ==
    IF ~UniformNew(0, Len(state))
    THEN [panicked |-> TRUE, state |-> state, pos |-> 0, trials |-> <<>>,
          cluster |-> <<>>]
    ELSE LET r == CASE integrator.kind = "Metropolis" ->
                         MetropolisStep(ds, temperature, state)
                    [] integrator.kind = "MetropolisFlip" ->
                         MetropolisFlipStep(ds, temperature, state)
                    [] OTHER -> WolffStep(ds, temperature, state,
                                          integrator.neighbor_list)
         IN  [panicked |-> FALSE, state |-> r.state, pos |-> r.pos,
              trials |-> r.trials,
              cluster |-> IF integrator.kind = "Wolff" THEN r.cluster ELSE <<>>]

(***************************************************************************)
(* Thermostat                                                              *)
(***************************************************************************)
Clamp(temperature) ==
    IF F64Lt(temperature, EPSILON) THEN EPSILON ELSE temperature

\* Thermostat::new
ThermostatNew(temperature, field) ==
    [temperature |-> Clamp(temperature), field |-> field]

\* Thermostat::near_zero
ThermostatNearZero == [temperature |-> EPSILON, field |-> Zero]

\* with_temperature building its thermostat anew, the field forgotten.
WithTemperatureZeroField(th, temperature) ==
    [temperature |-> Clamp(temperature), field |-> Zero]

\* Thermostat::with_temperature
WithTemperature(th, temperature) ==
    [temperature |-> Clamp(temperature), field |-> th.field]

\* with_field building its thermostat anew, at the lowest temperature.
WithFieldNearZero(th, field) == [temperature |-> EPSILON, field |-> field]

\* Thermostat::with_field
WithField(th, field) == [temperature |-> th.temperature, field |-> field]

(***************************************************************************)
(* Accumulator                                                             *)
(***************************************************************************)
\* Accumulator::new
AccumulatorNew == [sum |-> 0, sum_sq |-> 0, sum_fourth |-> 0, count |-> 0]

\* Accumulator::collect
Collect(acc, value) ==
    [sum        |-> acc.sum + value,
     sum_sq     |-> acc.sum_sq + value * value,
     sum_fourth |-> acc.sum_fourth + value * value * value * value,
     count      |-> acc.count + 1]

(***************************************************************************)
(* Instruments.  An Option is a sequence: <<>> is None, <<v>> is Some(v).  *)
(* A "probe" is an instrument with the trait's default hooks, any of which *)
(* a user implementation may make fail; a "stat" is a StatSensor, a "raw"  *)
(* a RawStatSensor and a "state" a StateSensor.                            *)
(***************************************************************************)
Hooks ==
    {"on_relax_start", "on_relax_end", "on_measure_start", "on_measure_end",
     "after_step"}

Probe == [kind |-> "probe"]

\* StatSensor::new
StatSensorNew ==
    [kind              |-> "stat",
     output            |-> <<>>,
     energy_acc        |-> AccumulatorNew,
     magnetization_acc |-> AccumulatorNew,
     thermostat        |-> <<>>,
     hamiltonian       |-> <<>>,
     n                 |-> <<>>]

\* on_measure_start leaving the size uncaptured.
StatOnMeasureStartNoSize(s, th, st) ==
    [s EXCEPT !.thermostat = <<th>>, !.hamiltonian = <<"exchange">>]

\* StatSensor::on_measure_start
StatOnMeasureStart(s, th, st) ==
    [s EXCEPT !.thermostat = <<th>>, !.hamiltonian = <<"exchange">>,
              !.n = <<Len(st)>>]

\* The line StatSensor::on_measure_end prints: the temperature and field of
\* the captured thermostat and the accumulators and size its five statistics
\* are computed from.
StatLine(s) ==
    [temperature   |-> s.thermostat[1].temperature,
     field         |-> s.thermostat[1].field,
     energy        |-> s.energy_acc,
     magnetization |-> s.magnetization_acc,
     n             |-> s.n[1]]

StatWrites(s) == s.thermostat # <<>> /\ s.hamiltonian # <<>> /\ s.n # <<>>

\* StatSensor::on_measure_end, the write succeeding
StatOnMeasureEnd(s) ==
    [s EXCEPT !.output = IF StatWrites(s) THEN Append(s.output, StatLine(s))
                         ELSE s.output,
              !.thermostat = <<>>, !.hamiltonian = <<>>, !.n = <<>>,
              !.energy_acc = AccumulatorNew,
              !.magnetization_acc = AccumulatorNew]

\* StatSensor::after_step
StatAfterStep(s, st) ==
    IF s.thermostat # <<>> /\ s.hamiltonian # <<>>
    THEN [s EXCEPT !.energy_acc = Collect(s.energy_acc, TotalEnergy(st)),
                   !.magnetization_acc =
                       Collect(s.magnetization_acc, MagnetizationMagnitude(st))]
    ELSE s

(***************************************************************************)
(* ObservableParquetIO and StateParquetIO.  The files of a writer are a    *)
(* record: temp and path are Options of a file, a file being its origin    *)
(* (a prior run or this one) and its rows; ops lists the calls the writer  *)
(* has made on the file system.                                            *)
(***************************************************************************)
NoFiles == [temp |-> <<>>, path |-> <<>>, ops |-> <<>>]

\* try_new: File::create on the temporary path, then the ArrowWriter.
ParquetTryNew(path_file) ==
    [temp |-> <<[origin |-> "run", rows |-> <<>>]>>, path |-> path_file,
     ops |-> <<"create_temp">>]

\* The writer field of a fresh ObservableParquetIO / StateParquetIO.
ParquetIO == [writer |-> TRUE]

\* writer.write(&batch) returning Ok: the batch goes to the temporary file.
ParquetWrite(f, rows) ==
    [f EXCEPT !.temp = <<[origin |-> "run", rows |-> f.temp[1].rows \o rows]>>,
              !.ops = Append(f.ops, "write")]

\* Drop renaming whatever close() returned.
ParquetDropRenamesAnyway(io, f, closes, renames) ==
    IF ~io.writer THEN f
    ELSE IF ~renames
    THEN [f EXCEPT !.ops = f.ops \o <<IF closes THEN "close_ok" ELSE "close_err",
                                      "rename_err">>]
    ELSE [temp |-> <<>>, path |-> f.temp,
          ops |-> f.ops \o <<IF closes THEN "close_ok" ELSE "close_err",
                             "rename_ok">>]

\* Drop for the two writers.  closes and renames tell whether close() and
\* rename() succeed.
ParquetDrop(io, f, closes, renames) ==
    IF ~io.writer THEN f
    ELSE IF ~closes THEN [f EXCEPT !.ops = Append(f.ops, "close_err")]
    ELSE IF ~renames
    THEN [f EXCEPT !.ops = f.ops \o <<"close_ok", "rename_err">>]
    ELSE [temp |-> <<>>, path |-> f.temp,
          ops |-> f.ops \o <<"close_ok", "rename_ok">>]

\* ObservableParquetIO::write: the batch of one phase.
ObservableBatch(relax, stage, th, energy, magnetization) ==
    [i \in 1..Len(energy) |->
        [relax |-> relax, stage |-> stage, step |-> i - 1,
         temperature |-> th.temperature, field |-> th.field,
         energy |-> energy[i], magnetization |-> magnetization[i]]]

\* StateParquetIO::write: the batch of one snapshot.
StateBatch(relax, stage, step, th, st) ==
    [i \in 1..Len(st) |->
        [relax |-> relax, stage |-> stage, step |-> step,
         temperature |-> th.temperature, field |-> th.field,
         id |-> i - 1, spin |-> st[i]]]

\* RawStatSensor::try_new
RawStatSensorNew ==
    [kind |-> "raw", io |-> ParquetIO, stage |-> 0, thermostat |-> <<>>,
     hamiltonian |-> <<>>, n |-> <<>>, energy |-> <<>>, magnetization |-> <<>>]

\* RawStatSensor::on_relax_start, on_measure_start
RawOnStart(s, th, st) ==
    [s EXCEPT !.thermostat = <<th>>, !.hamiltonian = <<"exchange">>,
              !.n = <<Len(st)>>, !.energy = <<>>, !.magnetization = <<>>]

RawWrites(s) == s.thermostat # <<>> /\ s.hamiltonian # <<>> /\ s.n # <<>>

\* RawStatSensor::on_relax_end (relax) and on_measure_end: the batch written
RawBatch(s, relax) ==
    ObservableBatch(relax, s.stage, s.thermostat[1], s.energy, s.magnetization)

\* The end hooks forgetting to count the stage.
RawOnEndSameStage(s) ==
    [s EXCEPT !.hamiltonian = <<>>, !.thermostat = <<>>, !.n = <<>>,
              !.energy = <<>>, !.magnetization = <<>>]

\* RawStatSensor::on_relax_end, on_measure_end, the write succeeding
RawOnEnd(s) ==
    [s EXCEPT !.stage = s.stage + 1, !.hamiltonian = <<>>,
              !.thermostat = <<>>, !.n = <<>>, !.energy = <<>>,
              !.magnetization = <<>>]

\* RawStatSensor::after_step
RawAfterStep(s, st) ==
    IF s.thermostat # <<>> /\ s.hamiltonian # <<>>
    THEN [s EXCEPT !.energy = Append(s.energy, TotalEnergy(st)),
                   !.magnetization =
                       Append(s.magnetization, MagnetizationMagnitude(st))]
    ELSE s

\* StateSensor::try_new
StateSensorNew(frequency) ==
    [kind |-> "state", io |-> ParquetIO, frequency |-> frequency,
     relax |-> <<>>, stage |-> 0, step |-> 0, thermostat |-> <<>>]

\* StateSensor::on_relax_start (relax) and on_measure_start
StateOnStart(s, relax, th) ==
    [s EXCEPT !.relax = <<relax>>, !.thermostat = <<th>>]

\* An end hook that lets the step index run on.
StateOnEndKeepsStep(s) ==
    [s EXCEPT !.relax = <<>>, !.stage = s.stage + 1, !.thermostat = <<>>]

\* StateSensor::on_relax_end, on_measure_end
StateOnEnd(s) ==
    [s EXCEPT !.relax = <<>>, !.step = 0, !.stage = s.stage + 1,
              !.thermostat = <<>>]

\* usize::is_multiple_of
IsMultipleOf(a, b) == IF b = 0 THEN a = 0 ELSE a % b = 0

StateWrites(s) ==
    IsMultipleOf(s.step, s.frequency) /\ s.relax # <<>> /\ s.thermostat # <<>>

\* StateSensor::after_step, the write succeeding
StateAfterStep(s) == [s EXCEPT !.step = s.step + 1]

\* The instrument after a hook that returned Ok.
HookEffect(inst, hook, th, st) ==
    CASE inst.kind = "stat" ->
           CASE hook = "on_measure_start" -> StatOnMeasureStart(inst, th, st)
             [] hook = "on_measure_end"   -> StatOnMeasureEnd(inst)
             [] hook = "after_step"       -> StatAfterStep(inst, st)
             [] OTHER                     -> inst
      [] inst.kind = "raw" ->
           CASE hook \in {"on_relax_start", "on_measure_start"} ->
                  RawOnStart(inst, th, st)
             [] hook \in {"on_relax_end", "on_measure_end"} -> RawOnEnd(inst)
             [] OTHER -> RawAfterStep(inst, st)
      [] inst.kind = "state" ->
           CASE hook = "on_relax_start"   -> StateOnStart(inst, TRUE, th)
             [] hook = "on_measure_start" -> StateOnStart(inst, FALSE, th)
             [] hook \in {"on_relax_end", "on_measure_end"} -> StateOnEnd(inst)
             [] OTHER -> StateAfterStep(inst)
      [] OTHER -> inst

\* Whether the hook calls the instrument's writer, and the batch it hands it.
HookWrites(inst, hook) ==
    CASE inst.kind = "raw" ->
           hook \in {"on_relax_end", "on_measure_end"} /\ RawWrites(inst)
      [] inst.kind = "state" -> hook = "after_step" /\ StateWrites(inst)
      [] OTHER -> FALSE

HookBatch(inst, hook, st) ==
    IF inst.kind = "raw" THEN RawBatch(inst, hook = "on_relax_end")
    ELSE StateBatch(inst.relax[1], inst.stage, inst.step, inst.thermostat[1], st)

\* The results a hook can return: Ok (TRUE) or an error (FALSE).  A probe
\* may fail anywhere; the sensors fail only where they write.
HookResults(inst, hook) ==
    CASE inst.kind = "probe" -> {TRUE, FALSE}
      [] inst.kind = "stat" ->
           IF hook = "on_measure_end" /\ StatWrites(inst) THEN {TRUE, FALSE}
           ELSE {TRUE}
      [] OTHER -> IF HookWrites(inst, hook) THEN {TRUE, FALSE} ELSE {TRUE}

(***************************************************************************)
(* Programs.                                                               *)
(***************************************************************************)
\* Relax::new
Relax(steps, temperature) ==
    [kind |-> "Relax", steps |-> steps, temperature |-> temperature]

\* CoolDown::new
CoolDown(max_temperature, min_temperature, cool_rate, relax, steps) ==
    [kind |-> "CoolDown", max_temperature |-> max_temperature,
     min_temperature |-> min_temperature, cool_rate |-> cool_rate,
     relax |-> relax, steps |-> steps]

\* HysteresisLoop::new
HysteresisLoop(steps, relax, temperature, max_field, field_step) ==
    [kind |-> "HysteresisLoop", steps |-> steps, relax |-> relax,
     temperature |-> temperature, max_field |-> max_field,
     field_step |-> field_step]

\* A caller that drives the machine itself, by relax_for and measure_for
\* calls of its choice.
Direct == [kind |-> "Direct"]

\* The checks at the top of Relax::run
RelaxValidate(p) ==
    IF p.steps = 0 THEN "NoSteps"
    ELSE IF F64Lt(p.temperature, EPSILON) THEN "ZeroTemperature"
    ELSE "Ok"

\* CoolDown::run without its check of steps.
CoolDownValidateNoSteps(p) ==
    IF F64Lt(p.max_temperature, p.min_temperature)
    THEN "TemperatureMaxLessThanMin"
    ELSE IF F64Lt(p.min_temperature, EPSILON) THEN "ZeroTemperature"
    ELSE IF F64Lt(p.cool_rate, EPSILON) THEN "ZeroCoolRate"
    ELSE "Ok"

\* The checks at the top of CoolDown::run
CoolDownValidate(p) ==
    IF F64Lt(p.max_temperature, p.min_temperature)
    THEN "TemperatureMaxLessThanMin"
    ELSE IF p.steps = 0 THEN "NoSteps"
    ELSE IF F64Lt(p.min_temperature, EPSILON) THEN "ZeroTemperature"
    ELSE IF F64Lt(p.cool_rate, EPSILON) THEN "ZeroCoolRate"
    ELSE "Ok"

\* The checks at the top of HysteresisLoop::run
HysteresisValidate(p) ==
    IF p.steps = 0 THEN "NoSteps"
    ELSE IF F64Lt(p.temperature, EPSILON) THEN "ZeroTemperature"
    ELSE IF F64Lt(p.max_field, EPSILON) THEN "ZeroField"
    ELSE IF F64Lt(p.field_step, EPSILON) THEN "ZeroFieldStep"
    ELSE "Ok"

\* The exit tests of the loops of CoolDown::run and HysteresisLoop::run,
\* evaluated on the loop variable after its update.
CoolDownStopsAtMin(p, temperature) == F64Le(temperature, p.min_temperature)
CoolDownStops(p, temperature) == F64Lt(temperature, p.min_temperature)
FirstLegStops(p, field) == F64Lt(p.max_field, field)
SecondLegStops(p, field) == F64Lt(field, F64Neg(p.max_field))
ThirdLegStops(p, field) == F64Lt(field, p.max_field)

(***************************************************************************)
(* The state of the model.                                                 *)
(***************************************************************************)
VARIABLES
    prog,         \* the program run on the machine
    ppc,          \* the program's position: start, relax, in_relax, measure,
                  \* in_measure, done
    loopVar,      \* CoolDown's temperature, HysteresisLoop's field
    leg,          \* the loop of HysteresisLoop::run being executed (1..3)
    pos,          \* the index in a direct caller's script, the index of
                  \* the stage Input::run has reached
    result,       \* what the program returned: running, Ok or an error kind
    thermostat,   \* Machine.thermostat
    state,        \* Machine.state
    instruments,  \* Machine.instruments
    files,        \* the files of each instrument's writer
    rng,          \* the generator passed by reference to every call
    mpc,          \* the machine's position in relax_for / measure_for: idle,
                  \* start, run, after, end, ret
    phase,        \* relax or measure: which of the two is executing
    steps,        \* the steps argument of the call
    done,         \* sweeps completed by Machine::run in this call
    idx,          \* the instrument the current hook loop has reached
    callOk,       \* the call's result once mpc = ret
    log,          \* history: every call, hook, sweep, return, set_thermostat
    windows,      \* history: the thermostat and loop of every measure_for
                  \* call of the program
    seed0,        \* history: the configuration the run started from
    firstLog,     \* history: the outcome of the first of two runs
    lib           \* history: the library calls of a caller that is not a
                  \* program, with their arguments and what they returned;
                  \* the stages Input::run has completed

progVars == <<prog, ppc, loopVar, leg, pos, result>>
machineVars == <<thermostat, state, instruments, files, rng>>
callVars == <<mpc, phase, steps, done, idx, callOk>>
histVars == <<seed0, firstLog, lib>>
vars == <<progVars, machineVars, callVars, log, windows, histVars>>

(***************************************************************************)
(* Machine::relax_for, Machine::measure_for and Machine::run.              *)
(***************************************************************************)
\* measure_for closing with relax_for's hook.
EndHookOfRelax(ph) == "on_relax_end"

\* Machine::run calling after_step only once its sweeps are over.
PointAfterLoop(pc, i, d, k, n) ==
    IF pc = "after" /\ d < k THEN [pc |-> "run", idx |-> 1]
    ELSE IF i <= n THEN [pc |-> pc, idx |-> i]
    ELSE IF pc = "end" THEN [pc |-> "ret", idx |-> 1]
    ELSE IF d < k THEN [pc |-> "run", idx |-> 1]
    ELSE IF n = 0 THEN [pc |-> "ret", idx |-> 1]
    ELSE [pc |-> "end", idx |-> 1]

StartHook(ph) == IF ph = "relax" THEN "on_relax_start" ELSE "on_measure_start"
EndHook(ph) == IF ph = "relax" THEN "on_relax_end" ELSE "on_measure_end"
HookAt(pc, ph) ==
    CASE pc = "start" -> StartHook(ph)
      [] pc = "after" -> "after_step"
      [] pc = "end"   -> EndHook(ph)

\* The next point of relax_for / measure_for at which something happens,
\* from position pc with instrument i next, d sweeps done of k: a hook call
\* on instrument i, the next sweep, or the return.
Point(pc, i, d, k, n) ==
    IF i <= n THEN [pc |-> pc, idx |-> i]
    ELSE IF pc = "end" THEN [pc |-> "ret", idx |-> 1]
    ELSE IF d < k THEN [pc |-> "run", idx |-> 1]
    ELSE IF n = 0 THEN [pc |-> "ret", idx |-> 1]
    ELSE [pc |-> "end", idx |-> 1]

Returned(pt, ok) ==
    IF pt.pc = "ret" THEN <<[ev |-> "return", ok |-> ok]>> ELSE <<>>

\* Entering relax_for (ph = relax) or measure_for (ph = measure) for k steps.
Enter(ph, k) ==
    LET pt == Point("start", 1, 0, k, Len(instruments))
    IN  /\ mpc = "idle"
        /\ mpc' = pt.pc
        /\ idx' = pt.idx
        /\ phase' = ph
        /\ steps' = k
        /\ done' = 0
        /\ callOk' = TRUE
        /\ log' = log \o <<[ev |-> "call", phase |-> ph, k |-> k,
                            th |-> thermostat]>> \o Returned(pt, TRUE)

\* A hook's error dropped instead of returned.
AfterHookIgnoringError(ok, pc, i, d, k, n) ==
    IF i < n THEN [pc |-> pc, idx |-> i + 1]
    ELSE IF pc = "end" THEN [pc |-> "ret", idx |-> 1]
    ELSE IF d < k THEN [pc |-> "run", idx |-> 1]
    ELSE [pc |-> "end", idx |-> 1]

\* Where a hook's result leads: on to the next instrument, or, on an error,
\* out of the call (the ? operator).
AfterHook(ok, pc, i, d, k, n) ==
    IF ok THEN Point(pc, i + 1, d, k, n) ELSE [pc |-> "ret", idx |-> i]

\* One hook call of the loops `for instrument in self.instruments.iter_mut()`:
\* the hook's error returns from the call at once (the ? operator).
HookCall(pc) ==
    /\ LET hook == HookAt(pc, phase)
           inst == instruments[idx]
       IN  \E ok \in HookResults(inst, hook) :
             LET pt == AfterHook(ok, pc, idx, done, steps, Len(instruments))
             IN  /\ instruments' =
                       IF ok
                       THEN [instruments EXCEPT
                               ![idx] = HookEffect(inst, hook, thermostat, state)]
                       ELSE instruments
                 /\ files' =
                       IF ok /\ HookWrites(inst, hook)
                       THEN [files EXCEPT
                               ![idx] = ParquetWrite(@, HookBatch(inst, hook, state))]
                       ELSE files
                 /\ mpc' = pt.pc
                 /\ idx' = pt.idx
                 /\ callOk' = ok
                 /\ log' = log \o <<[ev |-> "hook", hook |-> hook, inst |-> idx,
                                     ok |-> ok, th |-> thermostat, st |-> state]>>
                               \o Returned(pt, ok)
    /\ UNCHANGED <<progVars, thermostat, state, rng, phase, steps, done, windows,
                   histVars>>

\* relax_for / measure_for: the loop over the start hooks
OnStart == mpc = "start" /\ HookCall("start")

\* Machine::run: the loop over after_step
AfterStep == mpc = "after" /\ HookCall("after")

\* relax_for / measure_for: the loop over the end hooks
OnEnd == mpc = "end" /\ HookCall("end")

\* One iteration of Machine::run up to its instrument loop: the state is
\* replaced by the integrator's.
Sweep ==
    /\ mpc = "run"
    /\ \E ds \in RngStream(rng, 3 * Len(state)) :
         LET r  == MetropolisStep(ds, thermostat.temperature, state)
             pt == Point("after", 1, done + 1, steps, Len(instruments))
         IN  /\ state' = r.state
             /\ rng' = RngAdvance(rng, r.pos)
             /\ done' = done + 1
             /\ mpc' = pt.pc
             /\ idx' = pt.idx
             /\ log' = log \o <<[ev |-> "step", st |-> r.state,
                                 draws |-> r.draws]>> \o Returned(pt, TRUE)
    /\ UNCHANGED <<progVars, thermostat, instruments, files, phase, steps, callOk,
                   windows, histVars>>

(***************************************************************************)
(* The programs' run methods, cut at their calls of the machine.           *)
(***************************************************************************)
\* Machine::set_thermostat
SetThermostat(th) ==
    /\ thermostat' = th
    /\ log' = Append(log, [ev |-> "set_thermostat", th |-> th])

\* Input: the stages of a configuration file, run one after the other by
\* Input::run on the machine it builds.
Input(stages) == [kind |-> "Input", stages |-> stages]

\* The program in execution: the stage the loop of Input::run has reached,
\* or the one program run on the machine.
Program ==
    IF prog.kind = "Input"
    THEN IF pos <= Len(prog.stages) THEN prog.stages[pos] ELSE [kind |-> "None"]
    ELSE prog

\* A program returning r.
Finish(r) == result' = r /\ ppc' = "done"

\* Relax::run up to its relax_for call
RelaxRun ==
    /\ Program.kind = "Relax" /\ ppc = "start"
    /\ IF RelaxValidate(Program) # "Ok"
       THEN Finish(RelaxValidate(Program)) /\ UNCHANGED <<thermostat, log>>
       ELSE /\ SetThermostat(WithTemperature(thermostat, Program.temperature))
            /\ ppc' = "relax"
            /\ UNCHANGED result
    /\ UNCHANGED <<loopVar, leg, prog, pos, state, instruments, files, rng, callVars,
                   windows, histVars>>

\* CoolDown::run up to the first relax_for call
CoolDownRun ==
    /\ Program.kind = "CoolDown" /\ ppc = "start"
    /\ IF CoolDownValidate(Program) # "Ok"
       THEN Finish(CoolDownValidate(Program)) /\ UNCHANGED <<thermostat, log, loopVar>>
       ELSE /\ loopVar' = Program.max_temperature
            /\ SetThermostat(WithTemperature(thermostat, Program.max_temperature))
            /\ ppc' = "relax"
            /\ UNCHANGED result
    /\ UNCHANGED <<leg, prog, pos, state, instruments, files, rng, callVars, windows, histVars>>

\* HysteresisLoop::run up to the first relax_for call
HysteresisRun ==
    /\ Program.kind = "HysteresisLoop" /\ ppc = "start"
    /\ IF HysteresisValidate(Program) # "Ok"
       THEN Finish(HysteresisValidate(Program)) /\ UNCHANGED <<thermostat, log, loopVar>>
       ELSE LET t1 == WithTemperature(thermostat, Program.temperature)
                t2 == WithField(t1, Zero)
            IN  /\ loopVar' = Zero
                /\ thermostat' = t2
                /\ log' = log \o <<[ev |-> "set_thermostat", th |-> t1],
                                   [ev |-> "set_thermostat", th |-> t2]>>
                /\ ppc' = "relax"
                /\ UNCHANGED result
    /\ UNCHANGED <<leg, prog, pos, state, instruments, files, rng, callVars, windows, histVars>>

\* The steps argument of the program's relax_for and measure_for calls.
RelaxSteps == IF Program.kind = "Relax" THEN Program.steps ELSE Program.relax
MeasureSteps == Program.steps

\* machine.relax_for(rng, ...)
RelaxFor ==
    /\ ppc = "relax"
    /\ Enter("relax", RelaxSteps)
    /\ ppc' = "in_relax"
    /\ UNCHANGED <<prog, loopVar, leg, pos, result, machineVars, windows, histVars>>

\* machine.measure_for(rng, ...)
MeasureFor ==
    /\ ppc = "measure"
    /\ Enter("measure", MeasureSteps)
    /\ ppc' = "in_measure"
    /\ windows' = Append(windows, [leg |-> leg, th |-> thermostat])
    /\ UNCHANGED <<prog, loopVar, leg, pos, result, machineVars, histVars>>

\* `machine.relax_for(..)?` and `machine.measure_for(..)?` on an error
Propagate ==
    /\ prog.kind # "Direct" /\ mpc = "ret" /\ ~callOk
    /\ Finish("MachineError")
    /\ mpc' = "idle"
    /\ UNCHANGED <<prog, loopVar, leg, pos, machineVars, phase, steps, done, idx,
                   callOk, log, windows, histVars>>

\* Relax::run after relax_for returned Ok
RelaxReturn ==
    /\ Program.kind = "Relax" /\ ppc = "in_relax" /\ mpc = "ret" /\ callOk
    /\ Finish("Ok")
    /\ mpc' = "idle"
    /\ UNCHANGED <<prog, loopVar, leg, pos, machineVars, phase, steps, done, idx,
                   callOk, log, windows, histVars>>

\* CoolDown::run and HysteresisLoop::run between relax_for and measure_for
ThenMeasure ==
    /\ Program.kind \in {"CoolDown", "HysteresisLoop"}
    /\ ppc = "in_relax" /\ mpc = "ret" /\ callOk
    /\ ppc' = "measure"
    /\ mpc' = "idle"
    /\ UNCHANGED <<prog, loopVar, leg, pos, result, machineVars, phase, steps,
                   done, idx, callOk, log, windows, histVars>>

\* CoolDown::run from the return of measure_for to the next relax_for.  A
\* run is followed for MaxWindows iterations of the loop.
CoolDownNext ==
    /\ Program.kind = "CoolDown" /\ ppc = "in_measure" /\ mpc = "ret" /\ callOk
    /\ Len(windows) <= MaxWindows
    /\ LET temperature == F64Sub(loopVar, Program.cool_rate)
       IN  /\ loopVar' = temperature
           /\ IF CoolDownStops(Program, temperature)
              THEN Finish("Ok") /\ UNCHANGED <<thermostat, log>>
              ELSE /\ SetThermostat(WithTemperature(thermostat, temperature))
                   /\ ppc' = "relax"
                   /\ UNCHANGED result
    /\ mpc' = "idle"
    /\ UNCHANGED <<prog, leg, pos, state, instruments, files, rng, phase, steps, done,
                   idx, callOk, windows, histVars>>

\* HysteresisLoop::run from the return of measure_for to the next relax_for
HysteresisNext ==
    /\ Program.kind = "HysteresisLoop" /\ ppc = "in_measure" /\ mpc = "ret" /\ callOk
    /\ LET field == IF leg = 2 THEN F64Sub(loopVar, Program.field_step)
                    ELSE F64Add(loopVar, Program.field_step)
           stops == CASE leg = 1 -> FirstLegStops(Program, field)
                      [] leg = 2 -> SecondLegStops(Program, field)
                      [] leg = 3 -> ThirdLegStops(Program, field)
       IN  /\ loopVar' = field
           /\ IF stops /\ leg = 3
              THEN Finish("Ok") /\ UNCHANGED <<thermostat, log, leg>>
              ELSE /\ leg' = IF stops THEN leg + 1 ELSE leg
                   /\ SetThermostat(WithField(thermostat, field))
                   /\ ppc' = "relax"
                   /\ UNCHANGED result
    /\ mpc' = "idle"
    /\ UNCHANGED <<prog, pos, state, instruments, files, rng, phase, steps, done, idx,
                   callOk, windows, histVars>>

\* The `?` after a stage's run going on past every result.
InputContinuesAlways(r) == TRUE

\* The `?` after a stage's run in Input::run: the loop goes on after Ok.
InputContinues(r) == r = "Ok"

\* Input::run between the return of a stage's run and the next stage, the
\* stage just run and what it left being noted.
InputNext ==
    /\ prog.kind = "Input" /\ ppc = "done" /\ mpc = "idle"
    /\ pos <= Len(prog.stages)
    /\ InputContinues(result)
    /\ pos' = pos + 1
    /\ ppc' = "start"
    /\ result' = "running"
    /\ loopVar' = Zero
    /\ leg' = 1
    /\ lib' = Append(lib, [call |-> "stage", stage |-> pos, result |-> result,
                           log_len |-> Len(log), thermostat |-> thermostat,
                           state |-> state, rng |-> rng])
    /\ UNCHANGED <<prog, machineVars, callVars, log, windows, seed0, firstLog>>

\* Input::run after its last stage
InputReturn ==
    /\ prog.kind = "Input" /\ ppc = "start" /\ pos > Len(prog.stages)
    /\ Finish("Ok")
    /\ UNCHANGED <<prog, loopVar, leg, pos, machineVars, callVars, log, windows,
                   histVars>>

\* Input::run has returned.
InputReturned ==
    /\ prog.kind = "Input" /\ ppc \in {"done", "dropped"}
    /\ pos > Len(prog.stages) \/ ~InputContinues(result)

\* A direct caller calling relax_for or measure_for.
DirectCall ==
    /\ prog.kind = "Direct" /\ ppc = "caller" /\ pos <= MaxCalls
    /\ \E ph \in {"relax", "measure"}, k \in {0, MaxSteps} : Enter(ph, k)
    /\ ppc' = "in_call"
    /\ UNCHANGED <<prog, loopVar, leg, pos, result, machineVars, windows, histVars>>

\* A direct caller taking the result of its call; it stops at an error.
DirectReturn ==
    /\ prog.kind = "Direct" /\ ppc = "in_call" /\ mpc = "ret"
    /\ pos' = pos + 1
    /\ result' = IF callOk THEN "Ok" ELSE "MachineError"
    /\ ppc' = IF callOk THEN "caller" ELSE "done"
    /\ mpc' = "idle"
    /\ UNCHANGED <<prog, loopVar, leg, machineVars, phase, steps, done, idx,
                   callOk, log, windows, histVars>>

(***************************************************************************)
(* A caller of the Thermostat constructors.                                *)
(***************************************************************************)
Thermostats == [kind |-> "Thermostats"]

\* The temperatures and field magnitudes a caller passes.
BelowEpsilon == F64(FALSE, 0, 15)
Temperatures == {Neg0p1, Zero, BelowEpsilon, EPSILON, Lit0p5, NaN}
Fields == {Zero, Lit0p5, F64Neg(Lit0p5)}

\* One of new, near_zero, with_temperature, with_field; the thermostat
\* variable holds the value obtained.
ThermostatCall ==
    /\ prog.kind = "Thermostats" /\ ppc = "caller" /\ pos <= MaxCalls + 1
    /\ \E t \in Temperatures, f \in Fields :
         thermostat' \in {ThermostatNew(t, f), ThermostatNearZero,
                          WithTemperature(thermostat, t),
                          WithField(thermostat, f)}
    /\ pos' = pos + 1
    /\ UNCHANGED <<prog, ppc, loopVar, leg, result, state, instruments, files,
                   rng, callVars, log, windows, histVars>>

(***************************************************************************)
(* A caller of the integrators' step.                                      *)
(***************************************************************************)
Integrators == [kind |-> "Integrators"]

\* The lattices a caller builds a WolffIntegrator from: the open chain,
\* the ring, a lattice that lists an edge twice and one with an edge from
\* a site to itself.
WolffLattices(n) ==
    {Chain(n)}
        \cup (IF n >= 3 THEN {Append(Chain(n), Vertex(n, 1))} ELSE {})
        \cup (IF n >= 2 THEN {<<Vertex(1, 2), Vertex(1, 2)>>} ELSE {})
        \cup (IF n >= 1 THEN {<<Vertex(1, 1)>>} ELSE {})

\* The integrators a caller builds for a state of n spins.
IntegratorsFor(n) ==
    {MetropolisIntegratorNew, MetropolisFlipIntegratorNew}
        \cup {WolffFromLattice(n, vs) : vs \in WolffLattices(n)}

\* integrator.step(rng, &thermostat, &hamiltonian, state); a panic unwinds
\* the caller.
IntegratorCall ==
    /\ prog.kind = "Integrators" /\ ppc = "caller" /\ pos <= MaxCalls
    /\ \E integrator \in IntegratorsFor(Len(state)),
          ds \in RngStream(rng, 3 * Len(state) + 1) :
         LET r == IntegratorStep(integrator, ds, thermostat.temperature, state)
         IN  /\ state' = r.state
             /\ rng' = RngAdvance(rng, r.pos)
             /\ result' = IF r.panicked THEN "panicked" ELSE "Ok"
             /\ ppc' = IF r.panicked THEN "panicked" ELSE ppc
             /\ lib' = <<[call |-> "step", integrator |-> integrator,
                          state |-> state, ds |-> ds,
                          thermostat |-> thermostat, trials |-> r.trials,
                          cluster |-> r.cluster, draws |-> r.pos]>>
    /\ pos' = pos + 1
    /\ UNCHANGED <<prog, loopVar, leg, thermostat, instruments, files,
                   callVars, log, windows, seed0, firstLog>>

(***************************************************************************)
(* A caller of the energy components.                                      *)
(***************************************************************************)
Energies == [kind |-> "Energies"]

\* The components a caller builds for a state of n spins.
Components(n) ==
    {Gauge(1), UniaxialAnisotropy("Up", 1), UniaxialAnisotropy("Up", 2),
     UniaxialAnisotropy("Down", 2), ZeemanEnergy, FromLattice(n, Chain(n))}

MaxComponents == 3
MaxField == 2

\* hamiltonian!(components).total_energy(thermostat, state), with the
\* energy of every site and the total energy of every component.
TotalEnergyCall ==
    /\ prog.kind = "Energies" /\ ppc = "caller" /\ lib = <<>>
    /\ \E n \in 0..MaxSites, o \in IsingSpin, m \in 0..MaxField :
         \E st \in States(n),
            cs \in UNION {[1..k -> Components(n)] : k \in 1..MaxComponents} :
            LET h     == HamiltonianMacro(cs)
                field == Field(o, m)
            IN  lib' = <<[call |-> "total_energy", components |-> cs,
                          hamiltonian |-> h, state |-> st, field |-> field,
                          total |-> HamiltonianTotalEnergy(h, field, st),
                          sites |-> [i \in 1..n |->
                                        HamiltonianEnergy(h, field, st, i)],
                          parts |-> [k \in 1..Len(cs) |->
                                        HamiltonianTotalEnergy(cs[k], field,
                                                               st)]]>>
    /\ UNCHANGED <<progVars, machineVars, callVars, log, windows, seed0,
                   firstLog>>

\* The edge lists a lattice hands out: any vertices between its sites.
Lattices ==
    UNION {{[nsites |-> n, vertices |-> vs] :
              vs \in UNION {[1..k -> {Vertex(i, j) : i, j \in 1..n}] :
                               k \in 0..MaxSites}} :
           n \in 1..(MaxSites + 1)}

\* Exchange::from_lattice(&lattice), then the total energy of the all-up
\* state.
FromLatticeCall ==
    /\ prog.kind = "Energies" /\ ppc = "caller" /\ lib = <<>>
    /\ \E l \in Lattices :
         LET h == FromLattice(l.nsites, l.vertices)
         IN  lib' = <<[call |-> "from_lattice", lattice |-> l,
                       hamiltonian |-> h,
                       total |-> HamiltonianTotalEnergy(
                                     h, Field("Up", 0), UpWithSize(l.nsites))]>>
    /\ UNCHANGED <<progVars, machineVars, callVars, log, windows, seed0,
                   firstLog>>

(***************************************************************************)
(* A caller of State::magnetization.                                       *)
(***************************************************************************)
Magnetizations == [kind |-> "Magnetizations"]

\* state.magnetization() of an Ising state
MagnetizationCall ==
    /\ prog.kind = "Magnetizations" /\ ppc = "caller" /\ lib = <<>>
    /\ \E n \in 0..(MaxSites + 1) : \E st \in States(n) :
         lib' = <<[call |-> "magnetization", state |-> st,
                   magnetization |-> Magnetization(st)]>>
    /\ UNCHANGED <<progVars, machineVars, callVars, log, windows, seed0,
                   firstLog>>

Writers == [kind |-> "Writers"]

\* A path is its file name cut at the dots: <<"a", "obs">> is a.obs.
Paths ==
    {<<"a">>, <<"a", "parquet">>, <<"a", "obs">>, <<"a", "state">>,
     <<"b", "parquet">>, <<"a", "obs", "parquet">>}

\* Path::with_extension: the part after the last dot, if there is one, gives
\* way to the new extension.
WithExtension(path, extension) ==
    (IF Len(path) > 1 THEN SubSeq(path, 1, Len(path) - 1) ELSE path)
        \o extension

\* The temp_path of ObservableParquetIO::try_new and StateParquetIO::try_new
TempPath(path) == WithExtension(path, <<"parquet", "tmp">>)

\* The two writers Input::instruments builds, for the observables and for
\* the states, each constructed from its own target path.
TryNewCall ==
    /\ prog.kind = "Writers" /\ ppc = "caller" /\ lib = <<>>
    /\ \E observables \in Paths, state_output \in Paths :
         lib' = <<[call       |-> "try_new",
                   paths      |-> <<observables, state_output>>,
                   temp_paths |-> <<TempPath(observables),
                                    TempPath(state_output)>>]>>
    /\ UNCHANGED <<progVars, machineVars, callVars, log, windows, seed0,
                   firstLog>>

Sensors == [kind |-> "Sensors"]

MaxHooks == 5

\* The StatSensor a caller of its hooks holds: the one of StatSensor::new
\* until the first call, afterwards what the last call left.
SensorHeld == IF lib = <<>> THEN StatSensorNew ELSE lib[Len(lib)].sensor

\* The states a caller hands to a hook: only after_step reads the spins.
SensorStates(hook) ==
    IF hook = "after_step" THEN {<<"Up", "Up">>, <<"Up", "Down">>}
    ELSE {<<"Up", "Up">>}

\* Any hook of a StatSensor called by its owner, in any order: a caller
\* whose phase was cut short by an error calls no end hook before the next
\* start hook.  A hook that returns an error leaves the sensor as it was.
SensorHookCall ==
    /\ prog.kind = "Sensors" /\ ppc = "caller" /\ Len(lib) < MaxHooks
    /\ \E hook \in Hooks : \E st \in SensorStates(hook) :
       \E ok \in HookResults(SensorHeld, hook) :
         lib' = Append(lib,
                  [call   |-> "hook", hook |-> hook, st |-> st, ok |-> ok,
                   sensor |-> IF ok
                              THEN HookEffect(SensorHeld, hook, thermostat, st)
                              ELSE SensorHeld])
    /\ UNCHANGED <<progVars, machineVars, callVars, log, windows, seed0,
                   firstLog>>

IsParquet(inst) == inst.kind \in {"raw", "state"}

\* What close() and rename() can do when every instrument is dropped.
DropOutcomes ==
    {o \in [1..Len(instruments) -> {"ok", "close_err", "rename_err"}] :
        \A i \in 1..Len(instruments) : ~IsParquet(instruments[i]) => o[i] = "ok"}

\* The machine going out of scope, when the program has returned or the
\* direct caller is between calls: its instruments are dropped in order.
Drop ==
    /\ mpc = "idle"
    /\ ppc = "done" \/ (prog.kind = "Direct" /\ ppc = "caller")
    /\ prog.kind = "Input" => InputReturned
    /\ \E o \in DropOutcomes :
         files' = [i \in 1..Len(instruments) |->
                     IF IsParquet(instruments[i])
                     THEN ParquetDrop(instruments[i].io, files[i],
                                      o[i] # "close_err", o[i] = "ok")
                     ELSE files[i]]
    /\ ppc' = "dropped"
    /\ UNCHANGED <<prog, loopVar, leg, pos, result, thermostat, state,
                   instruments, rng, callVars, log, windows, histVars>>

\* A second run of the same program on a machine built like the first.
Restart ==
    /\ prog.kind \notin {"Direct", "Input"}
    /\ ppc = "done" /\ result = "Ok" /\ firstLog = <<>>
    /\ firstLog' = <<[log |-> log, instruments |-> instruments,
                      state |-> state, thermostat |-> thermostat]>>
    /\ ppc' = "start"
    /\ result' = "running"
    /\ loopVar' = Zero
    /\ leg' = 1
    /\ thermostat' = seed0.thermostat
    /\ state' = seed0.state
    /\ instruments' = seed0.instruments
    /\ files' = seed0.files
    /\ rng' = seed0.rng
    /\ log' = <<>>
    /\ windows' = <<>>
    /\ UNCHANGED <<prog, pos, callVars, seed0, lib>>

(***************************************************************************)
(* Initial states.                                                         *)
(***************************************************************************)
RelaxPrograms ==
    {Relax(s, t) : s \in 0..MaxSteps, t \in {Neg0p1, Zero, EPSILON, Lit0p5}}

CoolDownPrograms ==
    {CoolDown(c[1], c[2], c[3], r, s) :
        c \in {<<Lit1p0, Lit0p5, Lit0p25>>, <<Lit0p3, Lit0p1, Lit0p1>>,
               <<Lit0p5, Lit0p5, Lit0p1>>, <<Lit0p1, Lit0p5, Lit0p1>>,
               <<Lit0p5, Zero, Lit0p25>>, <<Lit0p5, Lit0p25, Zero>>,
               <<Lit0p5, Neg0p1, Lit0p25>>, <<Lit1p0, EPSILON, Lit0p5>>},
        r \in 0..1, s \in 0..1}

HysteresisPrograms ==
    {HysteresisLoop(s, r, c[1], c[2], c[3]) :
        c \in {<<Lit1p0, Lit0p5, Lit0p25>>, <<Lit0p5, Lit0p2, Lit0p1>>,
               <<Lit0p5, Lit0p1, Lit0p3>>, <<Zero, Lit0p5, Lit0p25>>,
               <<Lit0p5, Zero, Lit0p25>>, <<Lit0p5, Lit0p5, Zero>>},
        r \in 0..1, s \in 0..1}

\* The scenarios the specification works out in full.
CoolDownScenario == CoolDown(Lit3p0, Lit0p1, Lit0p1, 0, 1)

\* A CoolDown that passes validation with the smallest cool_rate allowed.
CoolDownSmallestRate == CoolDown(Lit3p0, Lit1p0, EPSILON, 0, 1)
HysteresisScenario == HysteresisLoop(1, 0, Lit3p0, Lit1p0, Lit0p1)

InstrumentKinds == {Probe, StatSensorNew}
InstrumentLists == UNION {[1..n -> InstrumentKinds] : n \in 0..MaxInstruments}

\* The machines the runs start from: a state and a seeded generator.
InitialMachines ==
    UNION {{[state |-> UpWithSize(n), rng |-> 0],
            [state |-> DownWithSize(n), rng |-> 1]} : n \in 1..MaxSites}

\* The runs with columnar outputs.
ParquetPrograms ==
    {Direct, Relax(2, Lit0p5), Relax(0, Lit0p5),
     CoolDown(Lit1p0, Lit0p5, Lit0p25, 1, 1),
     HysteresisLoop(1, 1, Lit1p0, Lit0p5, Lit0p25)}

ParquetInstrumentLists ==
    {<<RawStatSensorNew>>, <<StatSensorNew, RawStatSensorNew>>,
     <<Probe, StateSensorNew(1)>>, <<RawStatSensorNew, StateSensorNew(2)>>}

\* The stage lists of the configuration files.
InputPrograms ==
    {Input(<<>>),
     Input(<<Relax(1, Lit0p5)>>),
     Input(<<Relax(1, Lit0p5), CoolDown(Lit1p0, Lit0p5, Lit0p25, 0, 1)>>),
     Input(<<CoolDown(Lit1p0, Lit0p5, Lit0p25, 1, 1), Relax(0, Lit0p5),
             Relax(1, Lit0p5)>>),
     Input(<<Relax(1, Zero), Relax(1, Lit0p5)>>),
     Input(<<Relax(1, Lit0p5), HysteresisLoop(1, 0, Lit1p0, Lit0p5, Lit0p25),
             Relax(1, Lit0p25)>>),
     Input(<<HysteresisLoop(1, 1, Lit0p5, Lit0p5, Lit0p25),
             CoolDown(Lit1p0, Lit0p5, Zero, 0, 1)>>)}

\* The callers that are not programs.
Callers ==
    {"Direct", "Thermostats", "Integrators", "Energies", "Magnetizations",
     "Sensors", "Writers"}

InitialPpc(p) == IF p.kind \in Callers THEN "caller" ELSE "start"

\* The files the instruments' constructors leave, path_file being what is at
\* the writers' target paths beforehand.
FilesOf(ins, path_file) ==
    [i \in 1..Len(ins) |->
        IF IsParquet(ins[i]) THEN ParquetTryNew(path_file) ELSE NoFiles]

\* A good output of an earlier run.
PriorOutput == <<[origin |-> "prior", rows |-> <<>>]>>

Configured(p, th, m, ins, path_file) ==
    /\ prog = p
    /\ ppc = InitialPpc(p)
    /\ loopVar = Zero
    /\ leg = 1
    /\ pos = 1
    /\ result = "running"
    /\ thermostat = th
    /\ state = m.state
    /\ instruments = ins
    /\ files = FilesOf(ins, path_file)
    /\ rng = m.rng
    /\ mpc = "idle"
    /\ phase = "relax"
    /\ steps = 0
    /\ done = 0
    /\ idx = 1
    /\ callOk = TRUE
    /\ log = <<>>
    /\ windows = <<>>
    /\ seed0 = [thermostat |-> th, state |-> m.state, instruments |-> ins,
                files |-> FilesOf(ins, path_file), rng |-> m.rng]
    /\ firstLog = <<>>
    /\ lib = <<>>

Init ==
    \/ \E p \in RelaxPrograms \cup CoolDownPrograms \cup HysteresisPrograms
                  \cup {Direct},
          m \in InitialMachines, ins \in InstrumentLists :
         Configured(p, ThermostatNew(Lit1p0, Lit0p5), m, ins, <<>>)
    \/ \E p \in {CoolDownScenario, HysteresisScenario, CoolDownSmallestRate} :
         Configured(p, ThermostatNew(Lit1p0, Lit0p5),
                    [state |-> <<"Up", "Down">>, rng |-> 0], <<StatSensorNew>>,
                    <<>>)
    \/ \E p \in ParquetPrograms, ins \in ParquetInstrumentLists,
          path_file \in {<<>>, PriorOutput} :
         Configured(p, ThermostatNew(Lit1p0, Lit0p5),
                    [state |-> <<"Up", "Down">>, rng |-> 0], ins, path_file)
    \/ \E p \in InputPrograms :
         Configured(p, ThermostatNew(Lit2p8, Zero),
                    [state |-> <<"Up", "Down">>, rng |-> 0], <<StatSensorNew>>,
                    <<>>)
    \/ \E c \in {Thermostats, Sensors} :
         Configured(c, ThermostatNew(Lit1p0, Lit0p5),
                    [state |-> <<"Up", "Down">>, rng |-> 0], <<>>, <<>>)
    \/ \E c \in {Energies, Magnetizations, Writers} :
         Configured(c, ThermostatNearZero, [state |-> <<>>, rng |-> 0],
                    <<>>, <<>>)
    \/ \E n \in 0..(MaxSites + 1), r \in {0, 1},
          th \in {ThermostatNearZero, ThermostatNew(Lit1p0, Zero)} :
         \E st \in States(n) :
            Configured(Integrators, th, [state |-> st, rng |-> r], <<>>, <<>>)

Next ==
    \/ RelaxRun \/ CoolDownRun \/ HysteresisRun
    \/ RelaxFor \/ MeasureFor
    \/ OnStart \/ Sweep \/ AfterStep \/ OnEnd
    \/ Propagate \/ RelaxReturn \/ ThenMeasure
    \/ CoolDownNext \/ HysteresisNext
    \/ InputNext \/ InputReturn
    \/ DirectCall \/ DirectReturn
    \/ ThermostatCall \/ IntegratorCall
    \/ TotalEnergyCall \/ FromLatticeCall \/ MagnetizationCall
    \/ SensorHookCall \/ TryNewCall
    \/ Drop

Spec == Init /\ [][Next]_vars

\* Every program run a second time, from the configuration of the first.
SpecTwice == Init /\ [][Next \/ Restart]_vars

(***************************************************************************)
(* Reading the log.                                                        *)
(***************************************************************************)
NumInstruments == Len(instruments)

\* What an event is, without its payload.
Shape(e) == IF e.ev = "hook" THEN <<e.hook, e.inst>> ELSE <<e.ev, 0>>

IsPrefix(a, b) == Len(a) <= Len(b) /\ SubSeq(b, 1, Len(a)) = a

RECURSIVE Repeat(_, _)
Repeat(s, k) == IF k = 0 THEN <<>> ELSE s \o Repeat(s, k - 1)

\* One hook on every instrument in list order.
Round(hook, n) == [i \in 1..n |-> <<hook, i>>]

\* The events of a call of k steps on n instruments in which no hook fails.
ExpectedEvents(ph, k, n) ==
    Round(IF ph = "relax" THEN "on_relax_start" ELSE "on_measure_start", n)
    \o Repeat(<<<<"step", 0>>>> \o Round("after_step", n), k)
    \o Round(IF ph = "relax" THEN "on_relax_end" ELSE "on_measure_end", n)
    \o <<<<"return", 0>>>>

CallPositions == {c \in 1..Len(log) : log[c].ev = "call"}

\* The position after the events of the call at c.
CallEnd(c) ==
    LET later == {j \in (c + 1)..Len(log) :
                    log[j].ev \in {"call", "set_thermostat"}}
    IN  IF later = {} THEN Len(log) + 1
        ELSE CHOOSE j \in later : \A j2 \in later : j <= j2

CallEvents(c) == SubSeq(log, c + 1, CallEnd(c) - 1)

HasFailure(evs) == \E j \in 1..Len(evs) : evs[j].ev = "hook" /\ ~evs[j].ok

CountEvents(evs, P(_)) == Cardinality({j \in 1..Len(evs) : P(evs[j])})

IsStep(e) == e.ev = "step"

(***************************************************************************)
(* The order of events in relax_for and measure_for.                       *)
(***************************************************************************)
\* C1: a relax_for(k) or measure_for(k) call in which no hook fails produces
\* exactly: the phase's start hook on each instrument in list order, then k
\* times one step followed by after_step on each instrument in list order,
\* then the phase's end hook on each instrument in list order; a call still
\* running has produced a prefix of that sequence, and no hook of the other
\* phase is ever called.
CallEventSequence ==
    \A c \in CallPositions :
        LET evs      == CallEvents(c)
            shapes   == [j \in 1..Len(evs) |-> Shape(evs[j])]
            expected == ExpectedEvents(log[c].phase, log[c].k, NumInstruments)
            over     == CallEnd(c) <= Len(log) \/ mpc \in {"ret", "idle"}
        IN  ~HasFailure(evs) =>
                /\ IsPrefix(shapes, expected)
                /\ over => shapes = expected

\* A measure_for call of MaxSteps steps on two instruments has returned Ok.
CallEventSequenceWitness ==
    /\ mpc = "ret" /\ callOk /\ phase = "measure" /\ steps = MaxSteps
    /\ NumInstruments = 2 /\ done = steps
    /\ \E c \in CallPositions :
          /\ CallEnd(c) = Len(log) + 1
          /\ Len(CallEvents(c)) = 2 + MaxSteps * 3 + 2 + 1

\* C2: after_step reaches every instrument once per sweep, after the sweep
\* has replaced the machine's state and before the next sweep; on a list
\* [A, B] every hook fires on A before it fires on B, and both are given
\* the same post-sweep state.
AfterStepOncePerSweep ==
    /\ \A p \in 1..Len(log) :
          LET e == log[p] IN
          /\ (e.ev = "hook" /\ e.inst > 1) =>
                /\ log[p - 1].ev = "hook" /\ log[p - 1].ok
                /\ log[p - 1].hook = e.hook /\ log[p - 1].inst = e.inst - 1
                /\ log[p - 1].st = e.st /\ log[p - 1].th = e.th
          /\ (e.ev = "hook" /\ e.hook = "after_step" /\ e.inst = 1) =>
                log[p - 1].ev = "step" /\ log[p - 1].st = e.st
          /\ (e.ev = "step" /\ NumInstruments >= 1) =>
                IF p < Len(log)
                THEN /\ log[p + 1].ev = "hook" /\ log[p + 1].inst = 1
                     /\ log[p + 1].hook = "after_step"
                ELSE mpc = "after" /\ idx = 1 /\ state = e.st
          /\ (e.ev = "step" /\ log[p - 1].ev = "hook") =>
                log[p - 1].ok /\ log[p - 1].inst = NumInstruments
    /\ (mpc \in {"ret", "idle"} /\ ~HasFailure(log)) =>
          \A i \in 1..NumInstruments :
              LET OnI(e) == e.ev = "hook" /\ e.hook = "after_step" /\ e.inst = i
              IN  CountEvents(log, OnI) = CountEvents(log, IsStep)

\* Two instruments have been given the state of the second sweep of a call,
\* which differs from the state of the first.
AfterStepOncePerSweepWitness ==
    /\ NumInstruments = 2 /\ mpc = "ret" /\ callOk /\ done = 2
    /\ Len(log) >= 8
    /\ LET a == log[Len(log) - 4]
           b == log[Len(log) - 3]
       IN  /\ a.ev = "hook" /\ a.hook = "after_step" /\ a.inst = 1
           /\ b.ev = "hook" /\ b.hook = "after_step" /\ b.inst = 2
           /\ a.st = b.st /\ a.st = state
           /\ \E p \in 1..Len(log) : log[p].ev = "step" /\ log[p].st # state

\* C3: when a hook fails on the instrument at position i, the call returns
\* the error at once: nothing more happens in it (no instrument after i gets
\* the hook, no sweep runs, no end hook is called) and the program running
\* the call returns the error.
HookErrorReturns ==
    \A p \in 1..Len(log) :
        (log[p].ev = "hook" /\ ~log[p].ok) =>
            /\ Len(log) = p + 1
            /\ log[p + 1] = [ev |-> "return", ok |-> FALSE]
            /\ \/ mpc = "ret" /\ ~callOk
               \/ mpc = "idle" /\ ppc \in {"done", "dropped"}
                  /\ result = "MachineError"

\* after_step failed on the first of two instruments after the first of two
\* sweeps, and the caller has the error.
HookErrorReturnsWitness ==
    /\ NumInstruments = 2 /\ steps = 2 /\ done = 1
    /\ ppc = "done" /\ result = "MachineError"
    /\ Len(log) >= 2
    /\ LET e == log[Len(log) - 1]
       IN  e.ev = "hook" /\ e.hook = "after_step" /\ e.inst = 1 /\ ~e.ok

(***************************************************************************)
(* The programs.                                                           *)
(***************************************************************************)
\* A parameter out of its bounds.
Misconfigured(p) ==
    CASE p.kind = "Relax" ->
           p.steps = 0 \/ F64Lt(p.temperature, EPSILON)
      [] p.kind = "CoolDown" ->
           \/ p.steps = 0
           \/ F64Lt(p.min_temperature, EPSILON)
           \/ F64Lt(p.max_temperature, EPSILON)
           \/ F64Lt(p.max_temperature, p.min_temperature)
           \/ F64Lt(p.cool_rate, EPSILON)
      [] p.kind = "HysteresisLoop" ->
           \/ p.steps = 0
           \/ F64Lt(p.temperature, EPSILON)
           \/ F64Lt(p.max_field, EPSILON)
           \/ F64Lt(p.field_step, EPSILON)
      [] OTHER -> FALSE

MisconfigurationErrors ==
    {"NoSteps", "ZeroTemperature", "TemperatureMaxLessThanMin", "ZeroCoolRate",
     "ZeroField", "ZeroFieldStep"}

Finished == ppc = "done" /\ result = "Ok"

\* C4: when a parameter of Relax, CoolDown or HysteresisLoop is out of its
\* bounds, run returns a misconfiguration error and nothing else happens:
\* the machine's thermostat, state, instruments and generator are as they
\* were, no sweep has run and no hook has been called.
ValidationBeforeMachine ==
    Misconfigured(prog) =>
        /\ ppc \in {"start", "done", "dropped"}
        /\ ppc # "start" => result \in MisconfigurationErrors
        /\ log = <<>> /\ mpc = "idle"
        /\ thermostat = seed0.thermostat /\ state = seed0.state
        /\ instruments = seed0.instruments /\ rng = seed0.rng

\* A CoolDown whose only fault is steps = 0 has returned NoSteps.
ValidationBeforeMachineWitness ==
    /\ prog.kind = "CoolDown" /\ prog.steps = 0
    /\ ~F64Lt(prog.max_temperature, prog.min_temperature)
    /\ ~F64Lt(prog.min_temperature, EPSILON)
    /\ ~F64Lt(prog.cool_rate, EPSILON)
    /\ ppc = "done" /\ result = "NoSteps"
    /\ NumInstruments = 2

\* C5, as the code has it: after CoolDown::run returns Ok, the temperature
\* last set on the thermostat is not below T_min, and one more cool_rate
\* subtracted from it (in f64) is below T_min.
CoolDownEndsAtOrAboveMin ==
    (prog.kind = "CoolDown" /\ Finished) =>
        /\ ~F64Lt(thermostat.temperature, prog.min_temperature)
        /\ F64Lt(F64Sub(thermostat.temperature, prog.cool_rate),
                 prog.min_temperature)

\* A CoolDown of several iterations has returned Ok.
CoolDownEndsAtOrAboveMinWitness ==
    /\ prog.kind = "CoolDown" /\ Finished
    /\ Len(windows) >= 2
    /\ thermostat.temperature # prog.max_temperature

\* C5, as stated: after CoolDown::run returns Ok, the temperature last set
\* on the thermostat satisfies T_last < T_min <= T_last + cool_rate.
CoolDownEndsBelowMin ==
    (prog.kind = "CoolDown" /\ Finished) =>
        /\ F64Lt(thermostat.temperature, prog.min_temperature)
        /\ F64Le(prog.min_temperature,
                 F64Add(thermostat.temperature, prog.cool_rate))

\* C6: CoolDown with T_max = 3.0, T_min = 0.1, cool_rate = 0.1, relax = 0,
\* steps = 1 performs exactly 30 measurement windows, the last of them at
\* T_min, the field being the same in all of them.
CoolDownThirtyWindows ==
    (prog = CoolDownScenario /\ Finished) =>
        /\ Len(windows) = 30
        /\ ~F64Lt(prog.min_temperature, windows[Len(windows)].th.temperature)
        /\ \A w \in 1..Len(windows) : windows[w].th.field = seed0.thermostat.field

\* The measurement windows of a leg of HysteresisLoop::run.
WindowsOfLeg(l) == Cardinality({w \in 1..Len(windows) : windows[w].leg = l})

\* C7: HysteresisLoop with max_field = 1.0 and field_step = 0.1 performs 11
\* measurement windows in its first leg, 21 in its second and 20 in its
\* third.
HysteresisWindowsPerLeg ==
    (prog = HysteresisScenario /\ Finished) =>
        <<WindowsOfLeg(1), WindowsOfLeg(2), WindowsOfLeg(3)>> = <<11, 21, 20>>

\* C8: the third leg of HysteresisLoop stops only once the field exceeds
\* max_field, and the last field measured is within field_step of
\* +max_field.
ThirdLegReturnsToSaturation ==
    (prog.kind = "HysteresisLoop" /\ Finished) =>
        LET last == windows[Len(windows)].th.field
        IN  /\ F64Lt(prog.max_field, loopVar)
            /\ F64Le(F64Sub(prog.max_field, prog.field_step), last)
            /\ F64Le(last, F64Add(prog.max_field, prog.field_step))

(***************************************************************************)
(* StatSensor's output.                                                    *)
(***************************************************************************)
IsMeasureCall(e) == e.ev = "call" /\ e.phase = "measure"

\* C9: a StatSensor has written exactly one line for every on_measure_end
\* it has been given and at no other moment, so that after any sequence of
\* successful relax_for and measure_for calls it holds one line per
\* measure_for call, and after a CoolDown run one line per loop iteration.
StatSensorLines ==
    \A i \in 1..NumInstruments :
        instruments[i].kind = "stat" =>
            LET EndOn(e) == /\ e.ev = "hook" /\ e.hook = "on_measure_end"
                            /\ e.inst = i /\ e.ok
                lines    == Len(instruments[i].output)
            IN  /\ lines = CountEvents(log, EndOn)
                /\ (mpc \in {"ret", "idle"} /\ ~HasFailure(log)) =>
                       lines = CountEvents(log, IsMeasureCall)
                /\ (prog.kind = "CoolDown" /\ Finished) => lines = Len(windows)

\* A CoolDown of several iterations, each with a sweep of relaxation, has
\* returned Ok on a machine holding a StatSensor.
StatSensorLinesWitness ==
    /\ prog.kind = "CoolDown" /\ Finished /\ prog.relax = 1
    /\ Len(windows) >= 2
    /\ \E i \in 1..NumInstruments :
          /\ instruments[i].kind = "stat"
          /\ Len(instruments[i].output) = Len(windows)

(***************************************************************************)
(* Determinism.                                                            *)
(***************************************************************************)
\* The draws of a sweep are those of its trials in turn: a site draw and a
\* proposal draw, then an acceptance draw or none.
RECURSIVE InTrialOrder(_)
InTrialOrder(d) ==
    \/ d = <<>>
    \/ /\ Len(d) >= 2 /\ d[1] = "site" /\ d[2] = "proposal"
       /\ IF Len(d) >= 3 /\ d[3] = "acceptance"
          THEN InTrialOrder(SubSeq(d, 4, Len(d)))
          ELSE InTrialOrder(SubSeq(d, 3, Len(d)))

IsSite(x) == x = "site"

ThermostatAtLeastEpsilon == F64Le(EPSILON, thermostat.temperature)

(***************************************************************************)
(* The energy components.                                                  *)
(***************************************************************************)
\* The call of total_energy a caller has made, if it has.
TotalEnergyCalled == lib # <<>> /\ lib[1].call = "total_energy"

RECURSIVE Descend(_, _)
Descend(h, d) == IF d = 0 THEN h ELSE Descend(h.a, d - 1)

\* C15: the total energy of Compound(A, B) is the total energy of A plus
\* that of B, also when A or B has a total_energy of its own (Exchange,
\* ZeemanEnergy, UniaxialAnisotropy); hamiltonian! builds a left-leaning
\* tree of Compounds over its components, whose total energy is the sum of
\* the components' total energies.
CompoundTotalIsSum ==
    TotalEnergyCalled =>
        LET c  == lib[1]
            cs == c.components
            k  == Len(cs)
        IN  /\ k = 2 => /\ c.hamiltonian = CompoundNew(cs[1], cs[2])
                        /\ c.total = c.parts[1] + c.parts[2]
            /\ Descend(c.hamiltonian, k - 1) = cs[1]
            /\ \A j \in 2..k : Descend(c.hamiltonian, k - j).b = cs[j]
            /\ c.total = SumOver(c.parts, 1..k)

\* C16: the total energy of ZeemanEnergy is the sum of its per-site
\* energies, for every state and field; for the all-up state of N spins in
\* a field (up, h) both are -N * h, for the all-down state both are N * h.
ZeemanTotalIsSum ==
    (TotalEnergyCalled /\ lib[1].components = <<ZeemanEnergy>>) =>
        LET c   == lib[1]
            N   == Len(c.state)
            h   == c.field.magnitude
            sum == SumOver(c.sites, 1..N)
        IN  /\ c.total = sum
            /\ (c.state = UpWithSize(N) /\ c.field.orientation = "Up") =>
                   c.total = -N * h /\ sum = -N * h
            /\ (c.state = DownWithSize(N) /\ c.field.orientation = "Up") =>
                   c.total = N * h /\ sum = N * h

\* C17: the total energy of UniaxialAnisotropy(e, K) is the sum over the
\* sites of K * (s_i . e)^2, which is the sum of its per-site energies; for
\* the all-up state of N spins and e = up it is N * K.
AnisotropyTotalIsSum ==
    (/\ TotalEnergyCalled /\ Len(lib[1].components) = 1
     /\ lib[1].components[1].term = "UniaxialAnisotropy") =>
        LET c == lib[1]
            N == Len(c.state)
            e == c.components[1].reference
            K == c.components[1].strength
        IN  /\ c.total = SumOver([i \in 1..N |->
                                     K * Dot(c.state[i], e) * Dot(c.state[i], e)],
                                 1..N)
            /\ c.total = SumOver(c.sites, 1..N)
            /\ (c.state = UpWithSize(N) /\ e = "Up") => c.total = N * K

\* C18: the matrix Exchange::from_lattice builds is symmetric, has an
\* entry at (i, j) and at (j, i) for every edge (source i, target j) of the
\* lattice, whichever of the two is larger, and none where the lattice has
\* no edge; the total exchange energy of the all-up state on a lattice of
\* E edges is -E * J, the exchange constant J being 1.0.
ExchangeFromLatticeSymmetric ==
    (lib # <<>> /\ lib[1].call = "from_lattice") =>
        LET J  == lib[1].hamiltonian.exchange
            vs == lib[1].lattice.vertices
            n  == lib[1].lattice.nsites
        IN  /\ \A i, j \in 1..n : J[i][j] = J[j][i]
            /\ \A k \in 1..Len(vs) :
                   /\ J[vs[k].source][vs[k].target] # 0
                   /\ J[vs[k].target][vs[k].source] # 0
            /\ \A i, j \in 1..n :
                   J[i][j] # 0 =>
                       \E k \in 1..Len(vs) :
                           vs[k] \in {Vertex(i, j), Vertex(j, i)}
            /\ lib[1].total = -Len(vs)

(***************************************************************************)
(* The magnetization.                                                      *)
(***************************************************************************)
\* C22: the magnitude of the magnetization of an Ising state is
\* |#Up - #Down|, so N for up_with_size(N) and down_with_size(N); when it
\* is not zero the orientation is Up if the Up spins are the majority and
\* Down otherwise; the fold never takes the unsigned magnitude below zero.
MagnetizationIsDifference ==
    (lib # <<>> /\ lib[1].call = "magnetization") =>
        LET st == lib[1].state
            m  == lib[1].magnetization
            d  == Count(st, "Up") - Count(st, "Down")
        IN  /\ m.magnitude = IF d < 0 THEN -d ELSE d
            /\ st \in {UpWithSize(Len(st)), DownWithSize(Len(st))} =>
                   m.magnitude = Len(st)
            /\ d > 0 => m.reference = "Up"
            /\ d < 0 => m.reference = "Down"
            /\ ~m.underflow

\* The magnetization of a state that starts with a Down spin, passes
\* through zero and ends with a majority of Down spins has been taken.
MagnetizationIsDifferenceWitness ==
    /\ lib # <<>> /\ lib[1].call = "magnetization"
    /\ lib[1].state = <<"Down", "Up", "Down">>
    /\ lib[1].magnetization.magnitude = 1
    /\ lib[1].magnetization.reference = "Down"

(***************************************************************************)
(* The integrators.                                                        *)
(***************************************************************************)
\* C14: the step of MetropolisIntegrator, MetropolisFlipIntegrator and
\* WolffIntegrator returns, for every state of N >= 0 spins and every
\* thermostat of temperature at least epsilon, a state of N spins without
\* panicking.
IntegratorsTotal ==
    prog.kind = "Integrators" =>
        /\ F64Le(EPSILON, thermostat.temperature)
        /\ result # "panicked"
        /\ Len(state) = Len(seed0.state)

\* The step call a caller has made, if it has made one that returned.
StepCalled == lib # <<>> /\ lib[1].call = "step" /\ result # "panicked"

\* C23: in a trial of MetropolisIntegrator or MetropolisFlipIntegrator at
\* the drawn site i, with delta the energy at i after the proposal minus
\* the energy at i before it: for delta <= 0, delta = 0 included, the
\* proposed spin stays; for delta > 0 it stays exactly when the acceptance
\* draw u is below exp(-delta / T); otherwise the old spin is written back
\* and the state is as before the trial; no other site changes.
MetropolisTrial ==
    (StepCalled /\ lib[1].integrator.kind \in {"Metropolis", "MetropolisFlip"}) =>
        \A k \in 1..Len(lib[1].trials) :
            LET t        == lib[1].trials[k]
                ds       == lib[1].ds
                general  == lib[1].integrator.kind = "Metropolis"
                i        == SiteOf(ds[t.pos + 1], Len(t.before))
                spin     == IF general THEN SpinOf(ds[t.pos + 2])
                            ELSE FlipSpin(t.before[i])
                u        == ds[t.pos + (IF general THEN 3 ELSE 2)]
                proposed == SetAt(t.before, i, spin)
                delta    == Energy(proposed, i) - Energy(t.before, i)
            IN  /\ delta <= 0 => t.after = proposed
                /\ delta > 0 =>
                       IF Accepts(u, delta, lib[1].thermostat.temperature)
                       THEN t.after = proposed
                       ELSE t.after = t.before
                /\ \A j \in 1..Len(t.before) : j # i => t.after[j] = t.before[j]

\* A sweep of the general integrator has had a trial that raised the
\* energy and was accepted, one that raised it and was rejected, and one
\* that left it unchanged.
MetropolisTrialWitness ==
    /\ StepCalled /\ lib[1].integrator.kind = "Metropolis"
    /\ LET Delta(t) ==
               LET i == SiteOf(lib[1].ds[t.pos + 1], Len(t.before))
               IN  Energy(SetAt(t.before, i, SpinOf(lib[1].ds[t.pos + 2])), i)
                       - Energy(t.before, i)
           ts == lib[1].trials
       IN  /\ \E k \in 1..Len(ts) :
                  Delta(ts[k]) > 0 /\ ts[k].after # ts[k].before
           /\ \E k \in 1..Len(ts) :
                  Delta(ts[k]) > 0 /\ ts[k].after = ts[k].before
           /\ \E k \in 1..Len(ts) : Delta(ts[k]) = 0

\* The sites reachable from those of S by neighbor_list links that stay
\* among the members.
RECURSIVE Reachable(_, _, _)
Reachable(S, members, neighbor_list) ==
    LET more == {j \in members \ S :
                    \E i \in S : \E k \in 1..Len(neighbor_list[i]) :
                        neighbor_list[i][k] = j}
    IN  IF more = {} THEN S ELSE Reachable(S \cup more, members, neighbor_list)

\* C24: after a step of WolffIntegrator the sites whose spin differs from
\* before the step are exactly the cluster: the cluster contains the seed,
\* every member had the seed's spin before the step and is reachable from
\* the seed through neighbor_list links between members, every member has
\* been flipped exactly once, however often it was enqueued or listed as a
\* neighbour, and every other site is unchanged.
WolffFlipsCluster ==
    (StepCalled /\ lib[1].integrator.kind = "Wolff") =>
        LET before  == lib[1].state
            cluster == lib[1].cluster
            members == {cluster[k] : k \in 1..Len(cluster)}
            seed    == SiteOf(lib[1].ds[1], Len(before))
        IN  /\ {i \in 1..Len(before) : state[i] # before[i]} = members
            /\ seed \in members
            /\ \A m \in members : before[m] = before[seed]
            /\ Reachable({seed}, members, lib[1].integrator.neighbor_list)
                   = members
            /\ Cardinality(members) = Len(cluster)
            /\ \A m \in members : state[m] = FlipSpin(before[m])
            /\ \A i \in (1..Len(before)) \ members : state[i] = before[i]

\* A step on a ring of three equal spins, at a temperature where every
\* link is taken, has flipped all three: the third site was enqueued by
\* both of the others.
WolffFlipsClusterWitness ==
    /\ StepCalled /\ lib[1].integrator.kind = "Wolff"
    /\ Len(lib[1].state) = 3 /\ Len(lib[1].cluster) = 3
    /\ \A i \in 1..3 : Len(lib[1].integrator.neighbor_list[i]) = 2
    /\ lib[1].draws = 4
    /\ \A i \in 1..3 : state[i] # lib[1].state[i]

(***************************************************************************)
(* Relax.                                                                  *)
(***************************************************************************)
\* C19: a Relax run that returned Ok has set the thermostat once, to the
\* configured temperature with the field it had, has then made exactly one
\* relax_for(steps) call and nothing else: no on_measure_start and no
\* on_measure_end hook was called, a StatSensor has written no line, and
\* the thermostat at return has the configured temperature.
RelaxFrame ==
    (prog.kind = "Relax" /\ result = "Ok") =>
        LET IsCall(e) == e.ev = "call"
            IsSet(e)  == e.ev = "set_thermostat"
            configured == [temperature |-> prog.temperature,
                           field |-> seed0.thermostat.field]
        IN  /\ Len(log) >= 2
            /\ log[1] = [ev |-> "set_thermostat", th |-> configured]
            /\ log[2] = [ev |-> "call", phase |-> "relax", k |-> prog.steps,
                         th |-> configured]
            /\ CountEvents(log, IsSet) = 1
            /\ CountEvents(log, IsCall) = 1
            /\ CountEvents(log, IsStep) = prog.steps
            /\ \A j \in 1..Len(log) :
                   log[j].ev = "hook" =>
                       log[j].hook \notin {"on_measure_start", "on_measure_end"}
            /\ \A i \in 1..NumInstruments :
                   instruments[i].kind = "stat" => instruments[i].output = <<>>
            /\ thermostat = configured
            /\ windows = <<>>

\* A Relax of two sweeps at a temperature other than the machine's, on a
\* machine with a non-zero field and a StatSensor, has returned Ok.
RelaxFrameWitness ==
    /\ prog.kind = "Relax" /\ result = "Ok" /\ prog.steps = 2
    /\ prog.temperature # seed0.thermostat.temperature
    /\ thermostat.temperature = prog.temperature
    /\ seed0.thermostat.field # Zero
    /\ Len(state) = 2
    /\ \E i \in 1..NumInstruments : instruments[i].kind = "stat"

(***************************************************************************)
(* The columnar writers.                                                   *)
(***************************************************************************)
ParquetInstruments == {i \in 1..NumInstruments : IsParquet(instruments[i])}

\* The calls of a writer up to its drop are create_temp and writes.
OnlyWrites(ops, n) ==
    /\ n >= 1 /\ ops[1] = "create_temp"
    /\ \A j \in 2..n : ops[j] = "write"

\* C11: every write of a columnar writer goes to its temporary file; the
\* file at path is as it was until the writer has been closed successfully
\* and the temporary file renamed to it, the rename coming only after a
\* successful close; a failed close is followed by no rename, and a failed
\* rename leaves the temporary file in place.
AtomicPublish ==
    \A i \in ParquetInstruments :
        LET f    == files[i]
            ops  == f.ops
            n    == Len(ops)
            last == ops[n]
        IN  CASE last = "rename_ok" ->
                   /\ ops[n - 1] = "close_ok" /\ OnlyWrites(ops, n - 2)
                   /\ f.temp = <<>>
                   /\ f.path # <<>> /\ f.path[1].origin = "run"
              [] last = "rename_err" ->
                   /\ ops[n - 1] = "close_ok" /\ OnlyWrites(ops, n - 2)
                   /\ f.temp # <<>> /\ f.path = seed0.files[i].path
              [] last = "close_err" ->
                   /\ OnlyWrites(ops, n - 1)
                   /\ f.temp # <<>> /\ f.path = seed0.files[i].path
              [] OTHER ->
                   /\ OnlyWrites(ops, n) /\ ppc # "dropped"
                   /\ f.temp # <<>> /\ f.path = seed0.files[i].path

\* A writer that wrote two batches over a prior output has been dropped,
\* its close and rename succeeding.
AtomicPublishWitness ==
    /\ ppc = "dropped"
    /\ \E i \in ParquetInstruments :
          /\ seed0.files[i].path = PriorOutput
          /\ files[i].ops =
                <<"create_temp", "write", "write", "close_ok", "rename_ok">>
          /\ files[i].path # <<>> /\ files[i].path[1].rows # <<>>

\* C12: when a run fails, the file at each writer's path is left as it
\* was: neither created nor replaced by the partial output.
FailureLeavesPath ==
    (result \notin {"running", "Ok"}) =>
        \A i \in ParquetInstruments : files[i].path = seed0.files[i].path

\* The rows RawStatSensor owes for the phases whose end hook it has
\* returned Ok from, read off the first p events of the log: for the n-th of
\* them one row per sweep of the phase, numbered from 0, with the
\* thermostat given to the start hook and the observables of the state
\* after each sweep.
RECURSIVE RowsOwed(_, _, _)
RowsOwed(i, p, acc) ==
    IF p > Len(log) THEN acc.rows
    ELSE LET e == log[p] IN
         CASE e.ev = "call" ->
                RowsOwed(i, p + 1, [acc EXCEPT !.relax = (e.phase = "relax"),
                                               !.phase = <<>>])
           [] e.ev = "step" ->
                RowsOwed(i, p + 1,
                         [acc EXCEPT !.phase =
                             Append(@, [energy |-> TotalEnergy(e.st),
                                        magnetization |->
                                            MagnetizationMagnitude(e.st)])])
           [] e.ev = "hook" /\ e.inst = i /\ e.ok
              /\ e.hook \in {"on_relax_start", "on_measure_start"} ->
                RowsOwed(i, p + 1, [acc EXCEPT !.th = e.th])
           [] e.ev = "hook" /\ e.inst = i /\ e.ok
              /\ e.hook \in {"on_relax_end", "on_measure_end"} ->
                RowsOwed(i, p + 1,
                    [acc EXCEPT
                       !.stage = @ + 1,
                       !.rows = @ \o
                          [j \in 1..Len(acc.phase) |->
                              [relax |-> acc.relax, stage |-> acc.stage,
                               step |-> j - 1,
                               temperature |-> acc.th.temperature,
                               field |-> acc.th.field,
                               energy |-> acc.phase[j].energy,
                               magnetization |-> acc.phase[j].magnetization]]])
           [] OTHER -> RowsOwed(i, p + 1, acc)

\* The rows a writer has been given.
RowsWritten(i) ==
    IF files[i].temp # <<>> THEN files[i].temp[1].rows ELSE files[i].path[1].rows

\* C20: for the n-th completed phase of a run, counted from 0 over relax
\* and measure phases, RawStatSensor writes at the end hook one row per
\* sweep of the phase, in order, with stage n, step 0, 1, ..., relax true
\* for a relax phase and false for a measure phase, and the temperature and
\* field of the thermostat given to the phase's start hook.
ObservableRows ==
    \A i \in 1..NumInstruments :
        instruments[i].kind = "raw" =>
            RowsWritten(i) =
                RowsOwed(i, 1, [relax |-> TRUE, phase |-> <<>>, stage |-> 0,
                                th |-> seed0.thermostat, rows |-> <<>>])

\* A CoolDown has returned Ok with a RawStatSensor holding the rows of its
\* six phases, at three temperatures.
ObservableRowsWitness ==
    /\ prog.kind = "CoolDown" /\ Finished
    /\ \E i \in 1..NumInstruments :
          /\ instruments[i].kind = "raw"
          /\ LET rows == RowsWritten(i)
             IN  /\ Len(rows) >= 4
                 /\ rows[1].relax /\ ~rows[2].relax
                 /\ rows[Len(rows)].stage = 5
                 /\ rows[1].temperature # rows[Len(rows)].temperature

\* C21: a stage is one iteration, relax phase and measure phase, of a
\* program: in the tables of the columnar sensors the rows of an
\* iteration's relax phase and those of its measure phase carry the same
\* stage, and the stage grows from one iteration to the next.
StagePerIteration ==
    prog.kind \in {"CoolDown", "HysteresisLoop"} =>
        \A i \in ParquetInstruments :
            LET rows == RowsWritten(i)
            IN  \A j \in 1..(Len(rows) - 1) :
                    /\ rows[j].stage <= rows[j + 1].stage
                    /\ (rows[j].relax /\ ~rows[j + 1].relax) =>
                           rows[j].stage = rows[j + 1].stage
                    /\ (~rows[j].relax /\ rows[j + 1].relax) =>
                           rows[j].stage < rows[j + 1].stage

\* The rows StateSensor owes, read off the first p events of the log: a
\* snapshot of one row per spin, ids from 0, after every sweep whose index
\* within its phase is a multiple of the frequency, with that index, the
\* kind of the phase, the thermostat given to the start hook and the stage,
\* which counts the end hooks the sensor has returned from.
RECURSIVE SnapshotsOwed(_, _, _)
SnapshotsOwed(i, p, acc) ==
    IF p > Len(log) THEN acc.rows
    ELSE LET e == log[p] IN
         CASE e.ev = "call" ->
                SnapshotsOwed(i, p + 1,
                              [acc EXCEPT !.relax = (e.phase = "relax"),
                                          !.sweeps = 0])
           [] e.ev = "step" ->
                SnapshotsOwed(i, p + 1, [acc EXCEPT !.sweeps = @ + 1,
                                                    !.st = e.st])
           [] e.ev = "hook" /\ e.inst = i /\ e.ok
              /\ e.hook \in {"on_relax_start", "on_measure_start"} ->
                SnapshotsOwed(i, p + 1, [acc EXCEPT !.th = e.th])
           [] e.ev = "hook" /\ e.inst = i /\ e.ok
              /\ e.hook \in {"on_relax_end", "on_measure_end"} ->
                SnapshotsOwed(i, p + 1, [acc EXCEPT !.stage = @ + 1])
           [] e.ev = "hook" /\ e.inst = i /\ e.ok /\ e.hook = "after_step"
              /\ (\E q \in 0..(acc.sweeps - 1) :
                     acc.sweeps - 1 = q * instruments[i].frequency) ->
                SnapshotsOwed(i, p + 1,
                    [acc EXCEPT !.rows = @ \o
                        [id \in 1..Len(acc.st) |->
                            [relax |-> acc.relax, stage |-> acc.stage,
                             step |-> acc.sweeps - 1,
                             temperature |-> acc.th.temperature,
                             field |-> acc.th.field,
                             id |-> id - 1, spin |-> acc.st[id]]]])
           [] OTHER -> SnapshotsOwed(i, p + 1, acc)

\* C25: in each phase StateSensor writes a snapshot of N rows, one per
\* spin with ids 0..N-1, after exactly the sweeps whose index within the
\* phase, counted from 0, is a multiple of its frequency, tagged with that
\* index, the kind of the phase and the stage; the index starts again at 0
\* and the stage grows by one at every phase end.
StateSnapshots ==
    \A i \in 1..NumInstruments :
        instruments[i].kind = "state" =>
            /\ RowsWritten(i) =
                   SnapshotsOwed(i, 1, [relax |-> TRUE, sweeps |-> 0,
                                        stage |-> 0, st |-> seed0.state,
                                        th |-> seed0.thermostat,
                                        rows |-> <<>>])
            /\ (mpc = "idle" /\ ~HasFailure(log)) => instruments[i].step = 0

\* A direct caller has run two phases of two sweeps on a machine with a
\* StateSensor of frequency 2: each phase left one snapshot, of its first
\* sweep, the second with stage 1.
StateSnapshotsWitness ==
    /\ prog.kind = "Direct" /\ mpc = "idle" /\ result = "Ok"
    /\ \E i \in 1..NumInstruments :
          /\ instruments[i].kind = "state" /\ instruments[i].frequency = 2
          /\ instruments[i].stage = 2
          /\ LET rows == RowsWritten(i)
             IN  /\ Len(rows) = 2 * Len(state)
                 /\ rows[1].step = 0 /\ rows[1].stage = 0
                 /\ rows[Len(rows)].step = 0 /\ rows[Len(rows)].stage = 1
                 /\ rows[Len(rows)].id = Len(state) - 1

(***************************************************************************)
(* C26.  The line of a StatSensor and the latest on_measure_start.         *)
(***************************************************************************)
\* The position of the last on_measure_start before the call at k, 0 if
\* there is none.
RECURSIVE LastMeasureStart(_)
LastMeasureStart(k) ==
    IF k = 1 THEN 0
    ELSE IF lib[k - 1].hook = "on_measure_start" THEN k - 1
    ELSE LastMeasureStart(k - 1)

\* The observations of the after_step calls at positions j..(k-1), collected
\* into a fresh pair of accumulators.
RECURSIVE ObservedSince(_, _, _)
ObservedSince(j, k, acc) ==
    IF j >= k THEN acc
    ELSE ObservedSince(j + 1, k,
           IF lib[j].hook = "after_step"
           THEN [energy        |-> Collect(acc.energy, TotalEnergy(lib[j].st)),
                 magnetization |-> Collect(acc.magnetization,
                                           MagnetizationMagnitude(lib[j].st))]
           ELSE acc)

SensorBefore(k) == IF k = 1 THEN StatSensorNew ELSE lib[k - 1].sensor

\* The call at k is an on_measure_end that printed a line.
PrintsLine(k) ==
    /\ lib[k].hook = "on_measure_end" /\ lib[k].ok
    /\ Len(lib[k].sensor.output) = Len(SensorBefore(k).output) + 1

\* C26: for any sequence of hook calls on a StatSensor, one whose
\* measurement phase was cut short before on_measure_end included, the line
\* on_measure_end prints aggregates exactly the observations of the
\* after_step calls since the most recent on_measure_start.
StatLineSinceMeasureStart ==
    (prog.kind = "Sensors") =>
        \A k \in 1..Len(lib) :
           PrintsLine(k) =>
              LET s    == LastMeasureStart(k)
                  line == lib[k].sensor.output[Len(lib[k].sensor.output)]
                  seen == ObservedSince(s + 1, k,
                             [energy        |-> AccumulatorNew,
                              magnetization |-> AccumulatorNew])
              IN  /\ s > 0
                  /\ line.energy = seen.energy
                  /\ line.magnetization = seen.magnetization

(***************************************************************************)
(* C27.  Termination of the programs' loops.                               *)
(***************************************************************************)
\* C27: for every parameter set that passes validation CoolDown::run ends
\* after finitely many phases, because every iteration of its loop leaves
\* the temperature strictly lower than the iteration before.
CoolDownTemperatureDecreases ==
    [][CoolDownNext => F64Lt(loopVar', loopVar)]_vars

(***************************************************************************)
(* C28.  The temporary files of the columnar writers.                      *)
(***************************************************************************)
\* C28: two columnar writers with different target paths use different
\* temporary files, the temporary file of a writer for path being path with
\* ".tmp" appended.
TempPathsDistinct ==
    (prog.kind = "Writers" /\ lib # <<>>) =>
        /\ lib[1].paths[1] # lib[1].paths[2] =>
               lib[1].temp_paths[1] # lib[1].temp_paths[2]
        /\ \A w \in 1..2 :
               lib[1].temp_paths[w] = Append(lib[1].paths[w], "tmp")

(***************************************************************************)
(* C29.  The thermostat within and between phases.                         *)
(***************************************************************************)
IsSetThermostat(e) == e.ev = "set_thermostat"

\* The thermostat of the machine after the first j events of the log: the
\* one of the last set_thermostat among them, the configured one if there
\* is none.
RECURSIVE ThermostatAfter(_)
ThermostatAfter(j) ==
    IF j = 0 THEN seed0.thermostat
    ELSE IF IsSetThermostat(log[j]) THEN log[j].th
    ELSE ThermostatAfter(j - 1)

\* C29: on a machine driven by a program or called directly, the
\* thermostat changes only between phases, by set_thermostat: no
\* set_thermostat falls between the call of relax_for or measure_for and
\* its return, every hook of a phase, the end hooks included, runs at the
\* thermostat the phase started with, and the machine's thermostat is the
\* one last set.  In HysteresisLoop the temperature update leaves the field
\* as it was and every field update leaves the temperature as it was.
ThermostatFixedWithinPhase ==
    (prog.kind \notin Callers \/ prog.kind = "Direct") =>
        /\ thermostat = ThermostatAfter(Len(log))
        /\ \A j \in 1..Len(log) :
              /\ IsSetThermostat(log[j]) =>
                     (j = 1 \/ log[j - 1].ev \in {"return", "set_thermostat"})
              /\ log[j].ev = "hook" => log[j].th = ThermostatAfter(j)
        /\ \A c \in 1..Len(log) :
              log[c].ev = "call" =>
                 \A j \in (c + 1)..(CallEnd(c) - 1) : ~IsSetThermostat(log[j])
        /\ prog.kind = "HysteresisLoop" =>
              \A j \in 1..Len(log) :
                 IsSetThermostat(log[j]) =>
                    IF j = 1
                    THEN log[j].th.field = seed0.thermostat.field
                    ELSE log[j].th.temperature = ThermostatAfter(j - 1).temperature

\* A HysteresisLoop has run to its end on a machine with an instrument, its
\* windows at different fields and one temperature, which is not the one
\* the machine was configured with.
ThermostatFixedWithinPhaseWitness ==
    /\ prog.kind = "HysteresisLoop" /\ Finished
    /\ Len(instruments) >= 1 /\ Len(windows) >= 3
    /\ windows[1].th.field # windows[2].th.field
    /\ \A w \in 1..Len(windows) : windows[w].th.temperature = prog.temperature
    /\ prog.temperature # seed0.thermostat.temperature
    /\ \E j \in 1..Len(log) : log[j].ev = "hook" /\ log[j].hook = "on_measure_end"

(***************************************************************************)
(* C30.  The stages of Input::run.                                         *)
(***************************************************************************)
\* The checks at the top of a stage's run.
StageValidate(p) ==
    CASE p.kind = "Relax"          -> RelaxValidate(p)
      [] p.kind = "CoolDown"       -> CoolDownValidate(p)
      [] p.kind = "HysteresisLoop" -> HysteresisValidate(p)

\* The temperature a stage sets first.
StageTemperature(p) ==
    IF p.kind = "CoolDown" THEN p.max_temperature ELSE p.temperature

\* What stage k started from: what the stage before it left, the machine as
\* built for the first.
StageStart(k) ==
    IF k = 1
    THEN [log_len |-> 0, thermostat |-> seed0.thermostat,
          state |-> seed0.state, rng |-> seed0.rng]
    ELSE lib[k - 1]

\* The first hook called after the first n events.
FirstHookAfter(n) ==
    LET hooks == {j \in (n + 1)..Len(log) : log[j].ev = "hook"}
    IN  IF hooks = {} THEN 0
        ELSE CHOOSE j \in hooks : \A j2 \in hooks : j <= j2

\* C30: Input::run executes its stages on one machine in the order they are
\* declared, each from the thermostat and state the stage before it left;
\* it stops at the first stage that returns an error, returns that error
\* and executes no later stage; the parameters of a stage are checked when
\* that stage starts, after the stages before it have run.
StagesInOrder ==
    prog.kind = "Input" =>
        /\ pos \in 1..(Len(prog.stages) + 1)
        /\ Len(lib) = pos - 1
        /\ \A k \in 1..Len(lib) :
              LET from == StageStart(k)
                  hook == FirstHookAfter(from.log_len)
              IN  /\ lib[k].stage = k /\ lib[k].result = "Ok"
                  /\ StageValidate(prog.stages[k]) = "Ok"
                  /\ lib[k].log_len > from.log_len
                  /\ log[from.log_len + 1] =
                        [ev |-> "set_thermostat",
                         th |-> WithTemperature(from.thermostat,
                                   StageTemperature(prog.stages[k]))]
                  /\ hook > 0 /\ hook <= lib[k].log_len
                  /\ log[hook].st = from.state
        /\ (ppc \in {"done", "dropped"} /\ result # "Ok") =>
              /\ pos <= Len(prog.stages)
              /\ IF StageValidate(prog.stages[pos]) # "Ok"
                 THEN /\ result = StageValidate(prog.stages[pos])
                      /\ Len(log) = StageStart(pos).log_len
                      /\ thermostat = StageStart(pos).thermostat
                      /\ state = StageStart(pos).state
                 ELSE result = "MachineError" /\ HasFailure(log)
        /\ (ppc = "dropped" /\ result = "Ok") => pos = Len(prog.stages) + 1

\* Input::run has returned the error of its second stage, found when the
\* stage started: the first stage, several phases of it, had run in full,
\* the third never started.
StagesInOrderWitness ==
    /\ prog.kind = "Input" /\ Len(prog.stages) = 3
    /\ ppc = "dropped" /\ pos = 2 /\ result = "NoSteps"
    /\ Len(windows) >= 2
    /\ lib[1].thermostat # seed0.thermostat

====
